---- MODULE Spec2Model ----
(***************************************************************************)
(* Verification model of the tank game engine                              *)
(* (src/components/game/engines/tank).                                     *)
(*                                                                         *)
(* The module holds several specifications over one set of variables:      *)
(*   SpecTank   one Tank under arbitrary takeDamage / heal calls           *)
(*   SpecAI     one EnemyTank under the per-enemy body of updateEnemies    *)
(*              and alertToPosition interrupts                             *)
(*   SpecAlert  a small roster of EnemyTanks with positions, under the     *)
(*              player-bullet-hit branch of updateBullets                  *)
(*   SpecWalls  one tank against the walls of the map: move,               *)
(*              resolveTankWallCollision, keepTankInBounds                 *)
(*   SpecUnits  the player and two enemies on one line: the positional     *)
(*              part of updatePlayer and updateEnemies                     *)
(*   SpecBullets  updateBullets on bullets, tanks and walls with           *)
(*              positions                                                  *)
(*   SpecInput  the key handlers of InputSystem and the pause switch       *)
(*   SpecCooldown  the fire cooldown under ticks and shots                 *)
(*   SpecLoop   start, stop, restart and the frame callbacks               *)
(*   SpecSpawn  the unit types of the waves spawnWave builds               *)
(*   SpecPush   getCircleRectPushVector on bounded arguments               *)
(*   SpecInit   init with and without a drawing context                    *)
(*   SpecSearch the search timer of an alerted unit                        *)
(*   SpecWallPush one pass of the wall loop of resolveTankWallCollision    *)
(*   SpecSeparate resolveTankTankCollision for two units                   *)
(*   SpecPatrol a unit on patrol between its waypoints                     *)
(*   SpecFlee   the fleeing people of the particle system, with fairness   *)
(*   Spec       the orchestrator (TankGameEngine): session state, roster,  *)
(*              bullets, the phases of update(), fire and restart          *)
(* A specification leaves the variables of the other ones at their initial *)
(* value.                                                                  *)
(*                                                                         *)
(* Numbers: health and damage are integer health points, times are        *)
(* integer milliseconds, distances are integer arena units.                *)
(***************************************************************************)
EXTENDS Integers, Sequences, FiniteSets, TLC

VARIABLES
  tank,      \* SpecTank: the Tank under test [health, maxHealth, isAlive]
  tlog,      \* SpecTank: history of the calls made on tank
  ai,        \* SpecAI: the EnemyTank under test
  aipc,      \* SpecAI: position in the per-enemy body of updateEnemies
  aitick,    \* SpecAI: enemy steps completed
  ailog,     \* SpecAI: the last operation, its argument, the unit before it
  state,     \* Spec: TankGameEngine.state (TankGameState)
  player,    \* Spec: the PlayerTank
  enemies,   \* Spec: TankGameEngine.enemies, the roster, in order
  bullets,   \* Spec: TankGameEngine.bullets, in order
  playerDamage, \* Spec: TankGameEngine.playerDamage
  pc,        \* Spec: position inside update(): "idle" between two ticks
  atDeath,   \* Spec: session counters at the call of gameOver(false)
  squad,     \* SpecAlert: a roster of EnemyTanks, in order
  hitlog,    \* SpecAlert: the last hit, its arguments, the roster before it
  unit,      \* SpecWalls: a tank [position, radius, isAlive]
  gpc,       \* SpecWalls: position in the move / resolve / clamp sequence
  units,     \* SpecUnits: the tanks of a tick, the player first
  upc,       \* SpecUnits: position in the tick
  bw,        \* SpecBullets: the world [state, player, enemies, bullets, ...]
  blog,      \* SpecBullets: the world before the last bullet step, its dt
  inp,       \* SpecInput: InputSystem.state and the pause flag of the engine
  ilog,      \* SpecInput: keys held and callback invocations per key
  cool,      \* SpecCooldown: fire cooldown of the player and of one enemy, ticks
  loop,      \* SpecLoop: isRunning, isPaused, gameOver, lastTime, animationId, frame requests
  llog,      \* SpecLoop: the clock, the last event and whether the loop is stopped
  spawned,   \* SpecSpawn: the wave and the types of the enemies spawned for it
  pv,        \* SpecPush: arguments and result of getCircleRectPushVector
  eng,       \* SpecInit: what init built, the loop flag, the frame requests, calls made
  srch,      \* SpecSearch: a unit searching at its alerted position, simulated time spent there
  wp,        \* SpecWallPush: one pass of the wall loop of resolveTankWallCollision
  sep,       \* SpecSeparate: two units through resolveTankTankCollision
  pat,       \* SpecPatrol: a unit on patrol, the tick just made
  flee       \* SpecFlee: the fleeingPeople list of the particle system

tankVars == <<tank, tlog>>
aiVars == <<ai, aipc, aitick, ailog>>

engineVars == <<state, player, enemies, bullets, playerDamage, pc, atDeath>>
alertVars == <<squad, hitlog>>
wallVars == <<unit, gpc>>
\* the variables of the specifications that follow the first four
unitVars == <<units, upc>>
bulletVars == <<bw, blog>>
inputVars == <<inp, ilog>>
coolVars == <<cool>>
loopVars == <<loop, llog>>
spawnVars == <<spawned>>
pushVars == <<pv>>
engVars == <<eng>>
searchVars == <<srch>>
wallPushVars == <<wp>>
sepVars == <<sep>>
patrolVars == <<pat>>
fleeVars == <<flee>>
moreVars == <<wallVars, unitVars, bulletVars, inputVars, coolVars, loopVars, spawnVars, pushVars, engVars, searchVars, wallPushVars, sepVars, patrolVars, fleeVars>>

vars == <<tank, tlog, ai, aipc, aitick, ailog,
          state, player, enemies, bullets, playerDamage, pc, atDeath,
          squad, hitlog, unit, gpc, units, upc, bw, blog, inp, ilog, cool, loop, llog, spawned, pv, eng, srch, wp, sep, pat, flee>>

\* the variables of the engine specification, unused
EngineOff ==
  /\ state = 0 /\ player = 0 /\ enemies = 0 /\ bullets = 0
  /\ playerDamage = 0 /\ pc = "off" /\ atDeath = 0

\* the variables of the alert specification, unused
AlertOff == squad = 0 /\ hitlog = 0

\* the variables of the wall specification, unused
WallsOff == unit = 0 /\ gpc = "off"

\* the variables of the later specifications, unused
UnitsOff == units = 0 /\ upc = "off"
BulletsOff == bw = 0 /\ blog = 0
InputOff == inp = 0 /\ ilog = 0
CoolOff == cool = 0
LoopOff == loop = 0 /\ llog = 0
SpawnOff == spawned = 0
PushOff == pv = 0
EngOff == eng = 0
SearchOff == srch = 0
WallPushOff == wp = 0
SepOff == sep = 0
PatrolOff == pat = 0
FleeOff == flee = 0
MoreOff == WallsOff /\ UnitsOff /\ BulletsOff /\ InputOff /\ CoolOff /\ LoopOff /\ SpawnOff /\ PushOff /\ EngOff /\ SearchOff /\ WallPushOff /\ SepOff /\ PatrolOff /\ FleeOff

\* the variables of the first four specifications
firstVars == <<tank, tlog, ai, aipc, aitick, ailog,
               state, player, enemies, bullets, playerDamage, pc, atDeath,
               squad, hitlog>>

\* the variables of the first four specifications, unused
FirstOff ==
  /\ tank = 0 /\ tlog = 0
  /\ ai = 0 /\ aipc = "off" /\ aitick = 0 /\ ailog = 0
  /\ EngineOff /\ AlertOff

Max(a, b) == IF a >= b THEN a ELSE b
Min(a, b) == IF a <= b THEN a ELSE b

(***************************************************************************)
(* Tank (src/unnamed/part_003, class Tank)                                 *)
(***************************************************************************)

\* Tank constructor: health = maxHealth = the given health, isAlive = true.
NewTank(h) == [health |-> h, maxHealth |-> h, isAlive |-> TRUE]

\* takeDamage without the Math.max(0, ...) clamp.
TakeDamage_NoClamp(t, amount) ==
  LET h == t.health - amount
  IN  IF h <= 0
      THEN [tank |-> [t EXCEPT !.health = h, !.isAlive = FALSE], ret |-> TRUE]
      ELSE [tank |-> [t EXCEPT !.health = h], ret |-> FALSE]

\* Tank.takeDamage(amount): the tank after the call and the value returned.
TakeDamage(t, amount) ==
  LET h == Max(0, t.health - amount)
  IN  IF h <= 0
      THEN [tank |-> [t EXCEPT !.health = h, !.isAlive = FALSE], ret |-> TRUE]
      ELSE [tank |-> [t EXCEPT !.health = h], ret |-> FALSE]

\* Tank.heal(amount)
Heal(t, amount) == [t EXCEPT !.health = Min(t.maxHealth, t.health + amount)]

(***************************************************************************)
(* SpecTank: any sequence of takeDamage / heal calls on one tank           *)
(***************************************************************************)

\* Calls made on the tank under test.
MaxCalls == 4

\* Health a tank is built with: fast enemy of wave 1, standard enemy of
\* wave 1, player (in health points).
TankHealths == {48, 80, 100}

\* Amounts passed to takeDamage and heal (valid, non-negative amounts).
Amounts == {0, 10, 25, 35, 100}

TankInit ==
  /\ ai = 0 /\ aipc = "off" /\ aitick = 0 /\ ailog = 0
  /\ EngineOff /\ AlertOff /\ MoreOff
  /\ tank \in {NewTank(h) : h \in TankHealths}
  /\ tlog = [calls |-> 0, op |-> "new", ret |-> FALSE, wasAlive |-> TRUE,
             healthBefore |-> 0, trueReturns |-> 0, flips |-> 0,
             zeroBefore |-> FALSE]

TankTakeDamage(amount) ==
  /\ tlog.calls < MaxCalls
  /\ UNCHANGED <<aiVars, engineVars, alertVars, moreVars>>
  /\ LET r == TakeDamage(tank, amount)
     IN  /\ tank' = r.tank
         /\ tlog' = [calls |-> tlog.calls + 1, op |-> "takeDamage", ret |-> r.ret,
                     wasAlive |-> tank.isAlive, healthBefore |-> tank.health,
                     trueReturns |-> tlog.trueReturns + (IF r.ret THEN 1 ELSE 0),
                     flips |-> tlog.flips +
                               (IF tank.isAlive /\ ~r.tank.isAlive THEN 1 ELSE 0),
                     zeroBefore |-> tlog.zeroBefore \/ tank.health = 0]

TankHeal(amount) ==
  /\ tlog.calls < MaxCalls
  /\ UNCHANGED <<aiVars, engineVars, alertVars, moreVars>>
  /\ tank' = Heal(tank, amount)
  /\ tlog' = [calls |-> tlog.calls + 1, op |-> "heal", ret |-> FALSE,
              wasAlive |-> tank.isAlive, healthBefore |-> tank.health,
              trueReturns |-> tlog.trueReturns,
              flips |-> tlog.flips +
                        (IF tank.isAlive /\ ~tank'.isAlive THEN 1 ELSE 0),
              zeroBefore |-> tlog.zeroBefore \/ tank.health = 0]

TankNext ==
  \/ \E a \in Amounts : TankTakeDamage(a)
  \/ \E a \in Amounts : TankHeal(a)

SpecTank == TankInit /\ [][TankNext]_vars

\* C3: takeDamage returns true on exactly one call, the one that causes the
\* alive -> dead transition; on an already-dead unit (health already 0) it
\* leaves health at 0 and returns false.
C3_TrueOnlyOnDeathTransition ==
  /\ tlog.trueReturns <= 1
  /\ tlog.op = "takeDamage" =>
       /\ tlog.ret <=> (tlog.wasAlive /\ ~tank.isAlive)
       /\ (~tlog.wasAlive /\ tlog.healthBefore = 0) =>
            (tank.health = 0 /\ tlog.ret = FALSE)

\* C4: health stays within [0, maxHealth] after any sequence of takeDamage
\* and heal calls, and the alive flag changes from true to false exactly
\* once, on the call in which health first reaches 0 (so the unit is dead
\* exactly when its health has been 0 at some point, and the flag never
\* flips a second time).
C4_HealthBoundedDeathOnce ==
  /\ tank.health \in 0..tank.maxHealth
  /\ tlog.flips = (IF tank.isAlive THEN 0 ELSE 1)
  /\ tank.isAlive <=> ~(tlog.zeroBefore \/ tank.health = 0)

\* A dead unit was healed and then brought back to 0 by takeDamage.
C4_Witness ==
  /\ tlog.op = "takeDamage" /\ ~tlog.wasAlive
  /\ tlog.healthBefore > 0 /\ tank.health = 0 /\ tlog.flips = 1

(***************************************************************************)
(* Vector2 (src/components/game/engines/tank/utils/Vector2.ts)             *)
(* A position is a record [x, y] of integers.  distanceTo takes a square   *)
(* root, so a comparison distanceTo(v) <= r is made on the squares.        *)
(***************************************************************************)

Vec(x, y) == [x |-> x, y |-> y]

\* Vector2.distanceToSquared
DistSq(a, b) == (a.x - b.x) * (a.x - b.x) + (a.y - b.y) * (a.y - b.y)

\* a "null" position (targetPosition, alertedPosition)
NoPos == [none |-> TRUE]

(***************************************************************************)
(* EnemyTank (src/components/game/engines/tank/entities/Wall.ts, 183-576)  *)
(* Record fields keep the names of the class.  velocity is kept as the     *)
(* kind of movement last ordered: "zero", "patrol", "toward" or "away".    *)
(***************************************************************************)

detectionRange == 300
attackRange == 350
loseTargetRange == 450
\* seconds -> milliseconds
alertDuration == 8000
\* "Approximate delta time" added to searchTimer by updateAIState (0.016 s)
searchStep == 16
\* search time after which the alert is given up (2 s)
searchLimit == 2000
\* distance below which the alerted position counts as reached
alertReach == 30

AIStates == {"patrol", "chase", "attack", "retreat"}

\* EnemyTank constructor (the fields the AI reads and writes)
NewEnemyTank(pos, h) ==
  [position |-> pos, health |-> h, maxHealth |-> h, isAlive |-> TRUE,
   fireCooldown |-> 0, aiState |-> "patrol", velocity |-> "zero",
   targetPosition |-> NoPos, alertedPosition |-> NoPos,
   alertTimer |-> 0, searchTimer |-> 0]

\* EnemyTank.setTarget(position)
SetTarget(e, pos) == [e EXCEPT !.targetPosition = pos]

\* alertToPosition that leaves the current state alone
AlertToPosition_KeepState(e, pos) ==
  [e EXCEPT !.alertedPosition = pos, !.alertTimer = alertDuration,
            !.searchTimer = 0]

\* EnemyTank.alertToPosition(position)
AlertToPosition(e, pos) ==
  [e EXCEPT !.alertedPosition = pos, !.alertTimer = alertDuration,
            !.searchTimer = 0, !.aiState = "chase"]

\* EnemyTank.updateAlertedPosition(position)
UpdateAlertedPosition(e, pos) ==
  IF e.alertTimer > 0 THEN [e EXCEPT !.alertedPosition = pos] ELSE e

\* EnemyTank.isAlerted()
IsAlerted(e) == e.alertTimer > 0

\* EnemyTank.getEffectiveTarget()
GetEffectiveTarget(e) ==
  IF e.targetPosition # NoPos THEN e.targetPosition
  ELSE IF e.alertedPosition # NoPos /\ e.alertTimer > 0 THEN e.alertedPosition
  ELSE NoPos

\* updateAIState with the attack and detection tests in the other order
UpdateAIState_DetectFirst(e) ==
  IF e.targetPosition # NoPos
  THEN LET d2 == DistSq(e.position, e.targetPosition)
       IN  IF d2 <= detectionRange * detectionRange
           THEN [e EXCEPT !.aiState = "chase"]
           ELSE IF d2 <= attackRange * attackRange
           THEN [e EXCEPT !.aiState = "attack"]
           ELSE IF d2 > loseTargetRange * loseTargetRange
           THEN [e EXCEPT !.aiState = "patrol", !.targetPosition = NoPos]
           ELSE e
  ELSE [e EXCEPT !.aiState = "patrol"]

\* updateAIState whose final default keeps the current state
UpdateAIState_NoDefault(e) ==
  IF e.targetPosition # NoPos
  THEN e
  ELSE IF e.alertedPosition # NoPos /\ e.alertTimer > 0
  THEN LET d2 == DistSq(e.position, e.alertedPosition)
       IN  IF d2 > alertReach * alertReach
           THEN e
           ELSE [e EXCEPT !.aiState = "patrol"]
  ELSE e

\* EnemyTank.updateAIState()
UpdateAIState(e) ==
  IF e.targetPosition # NoPos
  THEN LET d2 == DistSq(e.position, e.targetPosition)
       IN  IF d2 <= attackRange * attackRange
           THEN [e EXCEPT !.aiState = "attack"]
           ELSE IF d2 <= detectionRange * detectionRange
           THEN [e EXCEPT !.aiState = "chase"]
           ELSE IF d2 > loseTargetRange * loseTargetRange
           THEN [e EXCEPT !.aiState = "patrol", !.targetPosition = NoPos]
           ELSE e
  ELSE IF e.alertedPosition # NoPos /\ e.alertTimer > 0
  THEN LET d2 == DistSq(e.position, e.alertedPosition)
       IN  IF d2 > alertReach * alertReach
           THEN [e EXCEPT !.aiState = "chase"]
           ELSE LET st == e.searchTimer + searchStep
                IN  IF st < searchLimit
                    THEN [e EXCEPT !.searchTimer = st, !.aiState = "patrol"]
                    ELSE [e EXCEPT !.alertedPosition = NoPos, !.alertTimer = 0,
                                   !.searchTimer = 0, !.aiState = "patrol"]
  ELSE [e EXCEPT !.aiState = "patrol"]

\* EnemyTank.updatePatrol: halt at the waypoint or head for it
UpdatePatrol(e) == [e EXCEPT !.velocity = "patrol"]

\* EnemyTank.updateChase
UpdateChase(e) ==
  IF GetEffectiveTarget(e) = NoPos
  THEN [e EXCEPT !.aiState = "patrol"]
  ELSE [e EXCEPT !.velocity = "toward"]

\* updateAttack without the low-health test
UpdateAttack_NoRetreat(e) ==
  IF GetEffectiveTarget(e) = NoPos
  THEN [e EXCEPT !.aiState = "patrol"]
  ELSE [e EXCEPT !.velocity = "zero"]

\* EnemyTank.updateAttack
UpdateAttack(e) ==
  IF GetEffectiveTarget(e) = NoPos
  THEN [e EXCEPT !.aiState = "patrol"]
  ELSE [e EXCEPT !.velocity = "zero",
                 !.aiState = IF 10 * e.health < 3 * e.maxHealth
                             THEN "retreat" ELSE @]

\* EnemyTank.updateRetreat
UpdateRetreat(e) ==
  LET target == GetEffectiveTarget(e)
  IN  IF target = NoPos
      THEN [e EXCEPT !.aiState = "patrol"]
      ELSE IF DistSq(e.position, target) > loseTargetRange * loseTargetRange
      THEN [e EXCEPT !.velocity = "away", !.aiState = "patrol",
                     !.targetPosition = NoPos, !.alertedPosition = NoPos,
                     !.alertTimer = 0]
      ELSE [e EXCEPT !.velocity = "away"]

\* EnemyTank.update(deltaTime), dt in milliseconds
EnemyUpdate(e, dt) ==
  IF ~e.isAlive THEN e
  ELSE
    LET e1 == IF e.fireCooldown > 0
              THEN [e EXCEPT !.fireCooldown = @ - dt] ELSE e
        e2 == IF e1.alertTimer > 0
              THEN [e1 EXCEPT !.alertTimer = @ - dt,
                              !.alertedPosition =
                                 IF e1.alertTimer - dt <= 0 THEN NoPos ELSE @]
              ELSE e1
    IN  CASE e2.aiState = "patrol"  -> UpdatePatrol(e2)
          [] e2.aiState = "chase"   -> UpdateChase(e2)
          [] e2.aiState = "attack"  -> UpdateAttack(e2)
          [] e2.aiState = "retreat" -> UpdateRetreat(e2)

\* Tank.canFire()
CanFire_Early(t) == t.fireCooldown <= 100
CanFire(t) == t.fireCooldown <= 0

\* EnemyTank.shouldFire(); rnd is the outcome of Math.random() < fireChance
ShouldFire(e, rnd) ==
  /\ CanFire(e)
  /\ e.aiState \in {"attack", "chase"}
  /\ GetEffectiveTarget(e) # NoPos
  /\ rnd

\* Tank.resetFireCooldown() as overridden by EnemyTank: 1 / fireRate plus
\* attackCooldownVariation * Math.random(), here interval + jitter (ms)
EnemyResetFireCooldown(e, interval, jitter) ==
  [e EXCEPT !.fireCooldown = interval + jitter]

(***************************************************************************)
(* SpecAI: one EnemyTank driven through the per-enemy body of              *)
(* TankGameEngine.updateEnemies (TankGameEngine.ts 279-323), and alerted   *)
(* or hit by the bullets step of the tick in between                       *)
(* (TankGameEngine.ts 356-377).  The unit starts in a state of a running   *)
(* game, at the boundary between two ticks.  Its own position after the    *)
(* move and the collision resolution, the player's position, the line of   *)
(* sight and the random draws are inputs.                                  *)
(***************************************************************************)

\* enemy steps run on the unit
MaxAITicks == 2

\* positions of the unit
OwnPositions == {Vec(0, 0), Vec(1, 0)}

\* positions of the player: at distance 30/31, 339/340, 350/351, 450/451
PlayerPositions == {Vec(31, 0), Vec(340, 0), Vec(351, 0), Vec(451, 0)}

\* positions the unit was alerted to before the first step
EarlierAlerts == {Vec(31, 0), Vec(451, 0)}

\* elapsed time of a tick in ms (at most the 100 ms cap of gameLoop)
Deltas == {16, 100}

\* 1 / fireRate of a standard enemy of wave 1 (fireRate 1.1), in ms
StandardFireInterval == 909

\* attackCooldownVariation * Math.random(), in ms (below 500)
Jitters == {0, 499}

\* player bullet damage of wave 1
BaseDamage == 25

AIInit ==
  /\ tank = 0 /\ tlog = 0
  /\ EngineOff /\ AlertOff /\ MoreOff
  /\ aipc = "sense" /\ aitick = 0
  /\ \E pos \in OwnPositions, h \in {80, 5}, st \in AIStates,
        tp \in {NoPos, Vec(340, 0)}, ap \in EarlierAlerts \cup {NoPos},
        at \in {16, alertDuration}, st0 \in {0, searchLimit - searchStep} :
       /\ st # "patrol" => (tp # NoPos \/ ap # NoPos)
       /\ ai = [NewEnemyTank(pos, 80) EXCEPT
                  !.health = h, !.aiState = st,
                  !.velocity = CASE st = "patrol" -> "patrol"
                                 [] st = "chase" -> "toward"
                                 [] st = "attack" -> "zero"
                                 [] st = "retreat" -> "away",
                  !.targetPosition = tp, !.alertedPosition = ap,
                  !.alertTimer = IF ap = NoPos THEN 0 ELSE at,
                  !.searchTimer = st0]
       \* unalerted: the unit has never received alertToPosition; at the
       \* start that is known of a unit as its constructor left it
       /\ ailog = [op |-> "new", arg |-> NoPos, pre |-> NoPos, quiet |-> FALSE,
                   direct |-> FALSE,
                   unalerted |-> (h = 80 /\ st = "patrol" /\ tp = NoPos
                                  /\ ap = NoPos /\ st0 = 0)]

\* updateEnemies 283-294: line-of-sight query and target update
AISense(los, ppos) ==
  /\ aipc = "sense" /\ ai.isAlive /\ aitick < MaxAITicks
  /\ ai' = IF los
           THEN LET e1 == SetTarget(ai, ppos)
                IN  IF IsAlerted(e1) THEN UpdateAlertedPosition(e1, ppos) ELSE e1
           ELSE SetTarget(ai, NoPos)
  /\ aipc' = "think"
  /\ ailog' = [op |-> "sense", arg |-> IF los THEN ppos ELSE NoPos, pre |-> ai,
               quiet |-> FALSE, direct |-> FALSE,
               unalerted |-> ailog.unalerted]
  /\ UNCHANGED <<aitick, tankVars, engineVars, alertVars, moreVars>>

\* updateEnemies 296: enemy.updateAIState()
AIThink ==
  /\ aipc = "think"
  /\ ai' = UpdateAIState(ai)
  /\ aipc' = "update"
  /\ ailog' = [op |-> "updateAIState", arg |-> NoPos, pre |-> ai,
               quiet |-> (ai.targetPosition = NoPos /\ ai.alertTimer <= 0),
               \* direct: the unit has a direct target within attack range
               direct |-> (/\ ai.targetPosition # NoPos
                           /\ DistSq(ai.position, ai.targetPosition)
                                <= attackRange * attackRange),
               unalerted |-> ailog.unalerted]
  /\ UNCHANGED <<aitick, tankVars, engineVars, alertVars, moreVars>>

\* updateEnemies 297: enemy.update(deltaTime)
AIUpdate(dt) ==
  /\ aipc = "update"
  /\ ai' = EnemyUpdate(ai, dt)
  /\ aipc' = "move"
  /\ ailog' = [ailog EXCEPT !.op = "update", !.arg = NoPos, !.pre = ai]
  /\ UNCHANGED <<aitick, tankVars, engineVars, alertVars, moreVars>>

\* updateEnemies 299-315: move, wall and bounds resolution, tank-tank push
AIMove(pos) ==
  /\ aipc = "move"
  /\ ai' = [ai EXCEPT !.position = pos]
  /\ aipc' = "fire"
  /\ ailog' = [ailog EXCEPT !.op = "move", !.arg = pos, !.pre = ai]
  /\ UNCHANGED <<aitick, tankVars, engineVars, alertVars, moreVars>>

\* updateEnemies 317-322: the fire check, and enemyFire 441-457
AIFire(canSeePlayer, rnd, jitter) ==
  /\ aipc = "fire"
  /\ ai' = IF /\ ShouldFire(ai, rnd)
              /\ (canSeePlayer \/ (IsAlerted(ai) /\ GetEffectiveTarget(ai) # NoPos))
           THEN EnemyResetFireCooldown(ai, StandardFireInterval, jitter)
           ELSE ai
  /\ aipc' = "sense"
  /\ aitick' = aitick + 1
  /\ ailog' = [ailog EXCEPT !.op = "fire", !.arg = NoPos, !.pre = ai]
  /\ UNCHANGED <<tankVars, engineVars, alertVars, moreVars>>

\* updateBullets 367-375: a nearby enemy was hit, this one is alerted
AIAlerted(ppos) ==
  /\ aipc = "sense" /\ ai.isAlive /\ aitick > 0
  /\ ai' = AlertToPosition(ai, ppos)
  /\ ailog' = [op |-> "alertToPosition", arg |-> ppos, pre |-> ai, quiet |-> FALSE,
               direct |-> FALSE,
               unalerted |-> FALSE]
  /\ UNCHANGED <<aipc, aitick, tankVars, engineVars, alertVars, moreVars>>

\* updateBullets 359-377: a player bullet hits this enemy
AIHit(ppos, damage) ==
  /\ aipc = "sense" /\ ai.isAlive /\ aitick > 0
  /\ ai' = TakeDamage(AlertToPosition(ai, ppos), damage).tank
  /\ ailog' = [op |-> "hit", arg |-> ppos, pre |-> ai, quiet |-> FALSE,
               direct |-> FALSE,
               unalerted |-> FALSE]
  /\ UNCHANGED <<aipc, aitick, tankVars, engineVars, alertVars, moreVars>>

AINext ==
  \/ \E los \in BOOLEAN, ppos \in PlayerPositions : AISense(los, ppos)
  \/ AIThink
  \/ \E dt \in Deltas : AIUpdate(dt)
  \/ \E pos \in OwnPositions : AIMove(pos)
  \/ \E c \in BOOLEAN, r \in BOOLEAN, j \in Jitters : AIFire(c, r, j)
  \/ \E ppos \in PlayerPositions : AIAlerted(ppos)
  \/ \E ppos \in PlayerPositions : AIHit(ppos, BaseDamage)

SpecAI == AIInit /\ [][AINext]_vars

\* C7: alertToPosition(pos), called from any AI state (also on the unit a
\* bullet hits), sets the alert record to position = pos with a countdown
\* of 8 seconds and leaves the unit in state chase right after the call.
C7_AlertForcesChase ==
  ailog.op \in {"alertToPosition", "hit"} =>
    /\ ai.alertedPosition = ailog.arg
    /\ ai.alertTimer = 8000
    /\ ai.aiState = "chase"

\* A unit in attack was alerted.
C7_Witness ==
  /\ ailog.op = "alertToPosition" /\ ailog.pre.aiState = "attack"
  /\ ai.aiState = "chase" /\ ai.alertedPosition = ailog.arg

\* C8: with a direct target set, updateAIState decides by the distance d to
\* it: d <= 350 gives attack; otherwise d <= 300 gives chase; otherwise
\* d > 450 drops the target and gives patrol; for any other d the unit is
\* left as it was.  A direct target at distance 340 yields attack.
C8_DirectTargetTable ==
  (ailog.op = "updateAIState" /\ ailog.pre.targetPosition # NoPos) =>
    LET d2 == DistSq(ailog.pre.position, ailog.pre.targetPosition)
    IN  /\ d2 <= 350 * 350 =>
             ai = [ailog.pre EXCEPT !.aiState = "attack"]
        /\ (d2 > 350 * 350 /\ d2 <= 300 * 300) =>
             ai = [ailog.pre EXCEPT !.aiState = "chase"]
        /\ (d2 > 350 * 350 /\ d2 > 300 * 300 /\ d2 > 450 * 450) =>
             ai = [ailog.pre EXCEPT !.aiState = "patrol", !.targetPosition = NoPos]
        /\ (d2 > 350 * 350 /\ d2 > 300 * 300 /\ d2 <= 450 * 450) =>
             ai = ailog.pre
        /\ d2 = 340 * 340 => ai.aiState = "attack"

\* A patrolling unit with a direct target at distance 340 went to attack.
C8_Witness ==
  /\ ailog.op = "updateAIState" /\ ailog.pre.aiState = "patrol"
  /\ ailog.pre.targetPosition # NoPos
  /\ DistSq(ailog.pre.position, ailog.pre.targetPosition) = 340 * 340
  /\ ai.aiState = "attack"

\* C9: with no direct target, updateAIState yields chase when the alert is
\* active (countdown > 0) and the unit is more than 30 units from the
\* alerted position; when no alert is active (countdown expired) the unit is
\* in patrol after updateAIState and stays so through the rest of its step
\* of that tick (update, move, fire check).
C9_AlertOrPatrol ==
  /\ (/\ ailog.op = "updateAIState"
      /\ ailog.pre.targetPosition = NoPos
      /\ ailog.pre.alertTimer > 0
      /\ ailog.pre.alertedPosition # NoPos
      /\ DistSq(ailog.pre.position, ailog.pre.alertedPosition) > 30 * 30)
     => ai.aiState = "chase"
  /\ ailog.quiet => ai.aiState = "patrol"

\* A unit that was searching (patrol) without a direct target, its alert
\* still active and more than 30 units away, went back to chase.
C9_Witness ==
  /\ ailog.op = "updateAIState" /\ ailog.pre.aiState = "patrol"
  /\ ailog.pre.targetPosition = NoPos /\ ailog.pre.alertTimer > 0
  /\ DistSq(ailog.pre.position, ailog.pre.alertedPosition) > 30 * 30
  /\ ai.aiState = "chase"

\* C35: a unit that has never received alertToPosition is never in state
\* chase: a direct target within detection range (300) is within attack
\* range (350) too, so updateAIState makes it attack.
C35_NeverAlertedNeverChases ==
  ailog.unalerted => ai.aiState # "chase"

\* a never alerted unit has just run updateAIState with a direct target
\* within detection range
C35_Witness ==
  /\ ailog.unalerted /\ ailog.op = "updateAIState"
  /\ ai.targetPosition # NoPos
  /\ DistSq(ai.position, ai.targetPosition) <= detectionRange * detectionRange
  /\ ai.aiState = "attack"

\* C36: in the tick pipeline a unit below 30% of its maximum health with
\* a direct target within attack range never fires: at the fire check of
\* such a tick its state is retreat, and the check leaves the unit as it
\* was whatever the cooldown, the alert and the random draw.
C36_LowHealthNeverFires ==
  (/\ ailog.op = "fire" /\ ailog.direct
   /\ 10 * ailog.pre.health < 3 * ailog.pre.maxHealth) =>
    /\ ailog.pre.aiState = "retreat"
    /\ \A rnd \in BOOLEAN : ~ShouldFire(ailog.pre, rnd)
    /\ ai = ailog.pre

\* the fire check of such a unit with the cooldown run out and an alert
\* running
C36_Witness ==
  /\ ailog.op = "fire" /\ ailog.direct
  /\ 10 * ailog.pre.health < 3 * ailog.pre.maxHealth
  /\ CanFire(ailog.pre) /\ IsAlerted(ailog.pre)
  /\ ai.aiState = "retreat"

(***************************************************************************)
(* TankGameEngine (src/components/game/engines/tank/TankGameEngine.ts)     *)
(*                                                                         *)
(* Spec, the orchestrator.  One tick is update() (213-236) in four steps:  *)
(* updatePlayer, updateEnemies, updateBullets, checkWaveCompletion with    *)
(* the health mirror; callbacks (fire, pause, click) run between ticks.    *)
(* Positions are not part of this specification: which bullet overlaps     *)
(* which unit, leaves the arena or meets a wall, and which enemy fires, are *)
(* inputs of the steps.  An enemy of the roster is kept as its Tank part    *)
(* and its bullet damage; its AI is the subject of SpecAI.                  *)
(***************************************************************************)

maxWaves == 5
enemiesPerWave == 3
\* PlayerTank: super(x, y, 100, 180, 3): health 100, 3 shots per second
PlayerHealth == 100
\* 1 / fireRate of the player in ms
PlayerFireInterval == 333
\* elapsed time of a tick in ms: the cap of gameLoop
TickDelta == 100
\* TANK_CONFIGS.standard.damage
StandardDamage == 15
\* score for a kill is ScorePerKill * wave
ScorePerKill == 100
\* playerDamage = BaseDamage + (wave - 1) * DamageStep
DamageStep == 5

\* bullets in flight at once
MaxBullets == 2
\* a player bullet reaches the first MaxReach living enemies of the roster
MaxReach == 1
\* no snapshot taken
NoSnap == [none |-> TRUE]

\* PlayerTank constructor
NewPlayerTank == [NewTank(PlayerHealth) EXCEPT !.isAlive = TRUE] @@ [fireCooldown |-> 0]

\* EnemyTank constructor for a standard tank of the given wave:
\* difficulty = 1 + (wave - 1) * 0.3, health = (60 + difficulty * 20) * 1
NewStandardEnemy(wave) ==
  NewTank(60 + ((10 + (wave - 1) * 3) * 20) \div 10) @@
  [bulletDamage |-> StandardDamage]

\* new Bullet(..., isPlayerBullet, damage)
NewBullet(isPlayerBullet, damage) ==
  [isPlayerBullet |-> isPlayerBullet, damage |-> damage, isActive |-> TRUE]

\* spawnWave(): the roster with the enemies of the wave appended
SpawnWave(roster, wave) ==
  LET numEnemies == enemiesPerWave + (wave - 1) * 2
  IN  roster \o [i \in 1..numEnemies |-> NewStandardEnemy(wave)]

IsAliveTank(t) == t.isAlive
IsActiveBullet(b) == b.isActive

\* the state object built by initializeGame (109-120)
InitialState ==
  [score |-> 0, isRunning |-> FALSE, isPaused |-> FALSE,
   playerHealth |-> PlayerHealth, maxHealth |-> PlayerHealth,
   enemiesKilled |-> 0, wave |-> 1, gameOver |-> FALSE, victory |-> FALSE]

\* gameOver(victory)
GameOver(st, victory) == [st EXCEPT !.gameOver = TRUE, !.victory = victory]

\* the world a step of update() works on
World(st, pl, en, bu, pd, snap) ==
  [state |-> st, player |-> pl, enemies |-> en, bullets |-> bu,
   playerDamage |-> pd, atDeath |-> snap]

\* checkWaveCompletion with wave > maxWaves as the victory test
CheckWaveCompletion_OffByOne(w) ==
  IF Len(w.enemies) = 0
  THEN IF w.state.wave > maxWaves
       THEN [w EXCEPT !.state = GameOver(w.state, TRUE)]
       ELSE LET wave == w.state.wave + 1
                pl == Heal(w.player, w.player.maxHealth)
            IN  [w EXCEPT !.state = [w.state EXCEPT !.wave = wave,
                                                     !.playerHealth = pl.health],
                          !.player = pl,
                          !.playerDamage = BaseDamage + (wave - 1) * DamageStep,
                          !.enemies = SpawnWave(w.enemies, wave)]
  ELSE w

\* checkWaveCompletion that spawns the next wave without healing the player
CheckWaveCompletion_NoHeal(w) ==
  IF Len(w.enemies) = 0
  THEN IF w.state.wave >= maxWaves
       THEN [w EXCEPT !.state = GameOver(w.state, TRUE)]
       ELSE LET wave == w.state.wave + 1
            IN  [w EXCEPT !.state = [w.state EXCEPT !.wave = wave,
                                                     !.playerHealth = w.player.health],
                          !.playerDamage = BaseDamage + (wave - 1) * DamageStep,
                          !.enemies = SpawnWave(w.enemies, wave)]
  ELSE w

\* checkWaveCompletion() (460-474)
CheckWaveCompletion(w) ==
  IF Len(w.enemies) = 0
  THEN IF w.state.wave >= maxWaves
       THEN [w EXCEPT !.state = GameOver(w.state, TRUE)]
       ELSE LET wave == w.state.wave + 1
                pl == Heal(w.player, w.player.maxHealth)
            IN  [w EXCEPT !.state = [w.state EXCEPT !.wave = wave,
                                                     !.playerHealth = pl.health],
                          !.player = pl,
                          !.playerDamage = BaseDamage + (wave - 1) * DamageStep,
                          !.enemies = SpawnWave(w.enemies, wave)]
  ELSE w

\* checkBulletTankCollision without the test that the tank is alive
CheckBulletTankCollision_IgnoreAlive(b, t, overlaps) == b.isActive /\ overlaps

\* checkBulletTankCollision(bullet, tank); overlaps stands for
\* distance < bullet.radius + tank.radius
CheckBulletTankCollision(b, t, overlaps) == b.isActive /\ t.isAlive /\ overlaps

\* the body of the loop for bullet i with a bullet that stays active after
\* it has hit a tank
ProcessBullet_StaysActive(w, i, c) ==
  LET b == w.bullets[i]
      off == [w EXCEPT !.bullets[i].isActive = FALSE]
  IN  IF ~b.isActive \/ c = 0 THEN w
      ELSE IF c = -1 THEN off
      ELSE IF b.isPlayerBullet
      THEN IF CheckBulletTankCollision(b, w.enemies[c], TRUE)
           THEN LET r == TakeDamage(w.enemies[c], b.damage)
                    hit == [w EXCEPT !.enemies[c] = r.tank]
                IN  IF r.ret
                    THEN [hit EXCEPT
                            !.state.enemiesKilled = @ + 1,
                            !.state.score = @ + ScorePerKill * w.state.wave]
                    ELSE hit
           ELSE w
      ELSE IF CheckBulletTankCollision(b, w.player, TRUE)
           THEN LET r == TakeDamage(w.player, b.damage)
                    hit == [w EXCEPT !.player = r.tank]
                IN  IF r.ret
                    THEN [hit EXCEPT
                            !.state = GameOver(hit.state, FALSE),
                            !.atDeath = [wave |-> hit.state.wave,
                                         score |-> hit.state.score,
                                         enemiesKilled |-> hit.state.enemiesKilled]]
                    ELSE hit
           ELSE w

\* updateBullets, the body of the loop for bullet i (331-413).  c is what
\* the bullet meets after its move: -1 it is out of bounds or in a wall,
\* 0 nothing, j >= 1 it overlaps enemy j of the roster (a player bullet) or
\* the player (an enemy bullet, j = 1).
ProcessBullet(w, i, c) ==
  LET b == w.bullets[i]
      off == [w EXCEPT !.bullets[i].isActive = FALSE]
  IN  IF ~b.isActive \/ c = 0 THEN w
      ELSE IF c = -1 THEN off
      ELSE IF b.isPlayerBullet
      THEN IF CheckBulletTankCollision(b, w.enemies[c], TRUE)
           THEN LET r == TakeDamage(w.enemies[c], b.damage)
                    hit == [off EXCEPT !.enemies[c] = r.tank]
                IN  IF r.ret
                    THEN [hit EXCEPT
                            !.state.enemiesKilled = @ + 1,
                            !.state.score = @ + ScorePerKill * w.state.wave]
                    ELSE hit
           ELSE w
      ELSE IF CheckBulletTankCollision(b, w.player, TRUE)
           THEN LET r == TakeDamage(w.player, b.damage)
                    hit == [off EXCEPT !.player = r.tank]
                IN  IF r.ret
                    THEN [hit EXCEPT
                            !.state = GameOver(hit.state, FALSE),
                            !.atDeath = [wave |-> hit.state.wave,
                                         score |-> hit.state.score,
                                         enemiesKilled |-> hit.state.enemiesKilled]]
                    ELSE hit
           ELSE w

\* updateBullets, the loop over the bullets from bullet i on
RECURSIVE ProcessBullets(_, _, _)
ProcessBullets(w, i, ch) ==
  IF i > Len(w.bullets) THEN w
  ELSE ProcessBullets(ProcessBullet(w, i, ch[i]), i + 1, ch)

\* index in the roster of the n-th living enemy (the last index if fewer)
RECURSIVE ReachIndex(_, _, _)
ReachIndex(roster, i, n) ==
  IF i >= Len(roster) THEN Len(roster)
  ELSE IF roster[i].isAlive
       THEN (IF n <= 1 THEN i ELSE ReachIndex(roster, i + 1, n - 1))
       ELSE ReachIndex(roster, i + 1, n)

\* Tank.resetFireCooldown() of the player: 1 / fireRate
ResetFireCooldown(t) == [t EXCEPT !.fireCooldown = PlayerFireInterval]

\* playerFire without the test of isPaused
PlayerFire_WhilePaused(w) ==
  IF w.state.gameOver THEN w
  ELSE IF ~CanFire(w.player) THEN w
  ELSE [w EXCEPT !.bullets = Append(@, NewBullet(TRUE, w.playerDamage)),
                 !.player = ResetFireCooldown(w.player)]

\* playerFire() (420-438)
PlayerFire(w) ==
  IF w.state.isPaused \/ w.state.gameOver THEN w
  ELSE IF ~CanFire(w.player) THEN w
  ELSE [w EXCEPT !.bullets = Append(@, NewBullet(TRUE, w.playerDamage)),
                 !.player = ResetFireCooldown(w.player)]

\* PlayerTank.update that counts down whatever the cooldown is
PlayerUpdate_Always(t, dt) == [t EXCEPT !.fireCooldown = @ - dt]

\* PlayerTank.update(deltaTime)
PlayerUpdate(t, dt) ==
  IF t.fireCooldown > 0 THEN [t EXCEPT !.fireCooldown = @ - dt] ELSE t

\* initializeGame() (89-129): everything but playerDamage is built anew
InitializeGame(w) ==
  [w EXCEPT !.state = InitialState,
            !.player = NewPlayerTank,
            !.enemies = SpawnWave(<<>>, 1),
            !.bullets = <<>>]

Now == World(state, player, enemies, bullets, playerDamage, atDeath)

Becomes(w) ==
  /\ state' = w.state
  /\ player' = w.player
  /\ enemies' = w.enemies
  /\ bullets' = w.bullets
  /\ playerDamage' = w.playerDamage
  /\ atDeath' = w.atDeath

\* init(canvas) (65-86): the session as initializeGame leaves it, not started
Init ==
  /\ tank = 0 /\ tlog = 0
  /\ ai = 0 /\ aipc = "off" /\ aitick = 0 /\ ailog = 0
  /\ AlertOff /\ MoreOff
  /\ LET w == InitializeGame(World(InitialState, NewPlayerTank, <<>>, <<>>,
                                   BaseDamage, NoSnap))
     IN  /\ state = w.state
         /\ player = w.player
         /\ enemies = w.enemies
         /\ bullets = w.bullets
         /\ playerDamage = w.playerDamage
         /\ atDeath = w.atDeath
  /\ pc = "idle"

\* start() (178-184): the first gameLoop() call is made at once
Start ==
  /\ pc = "idle" /\ ~state.isRunning
  /\ state' = [state EXCEPT !.isRunning = TRUE]
  /\ pc' = IF ~state.isPaused /\ ~state.gameOver THEN "player" ELSE "idle"
  /\ UNCHANGED <<player, enemies, bullets, playerDamage, atDeath, tankVars, aiVars, alertVars, moreVars>>

\* gameLoop() (196-210) as a frame callback: update() unless paused or over
Frame ==
  /\ pc = "idle" /\ state.isRunning
  /\ pc' = IF ~state.isPaused /\ ~state.gameOver THEN "player" ELSE "idle"
  /\ UNCHANGED <<state, player, enemies, bullets, playerDamage, atDeath,
                 tankVars, aiVars, alertVars, moreVars>>

\* updatePlayer(deltaTime) (239-275); autoFire is autoFireEnabled
UpdatePlayer(autoFire) ==
  /\ pc = "player"
  /\ autoFire => Len(bullets) < MaxBullets
  /\ LET w1 == [Now EXCEPT !.player = PlayerUpdate(player, TickDelta)]
         w2 == IF autoFire /\ CanFire(w1.player) THEN PlayerFire(w1) ELSE w1
     IN  Becomes(w2)
  /\ pc' = "enemies"
  /\ UNCHANGED <<tankVars, aiVars, alertVars, moreVars>>

\* updateEnemies(deltaTime) (278-327): k living enemies fire, the dead
\* ones leave the roster
UpdateEnemies(k) ==
  /\ pc = "enemies"
  /\ k <= Cardinality({i \in 1..Len(enemies) : enemies[i].isAlive})
  /\ Len(bullets) + k <= MaxBullets
  /\ bullets' = bullets \o [i \in 1..k |-> NewBullet(FALSE, StandardDamage)]
  /\ enemies' = SelectSeq(enemies, IsAliveTank)
  /\ pc' = "bullets"
  /\ UNCHANGED <<state, player, playerDamage, atDeath, tankVars, aiVars, alertVars, moreVars>>

\* updateBullets(deltaTime) (330-417); ch[i] is what bullet i meets
UpdateBullets(ch) ==
  /\ pc = "bullets"
  /\ \A i \in 1..Len(bullets) :
       IF bullets[i].isPlayerBullet
       THEN ch[i] <= ReachIndex(enemies, 1, MaxReach)
       ELSE ch[i] <= 1
  /\ LET w == ProcessBullets(Now, 1, ch)
     IN  Becomes([w EXCEPT !.bullets = SelectSeq(w.bullets, IsActiveBullet)])
  /\ pc' = "wave"
  /\ UNCHANGED <<tankVars, aiVars, alertVars, moreVars>>

\* update() 231-235: checkWaveCompletion(), then the health mirror
CheckWave ==
  /\ pc = "wave"
  /\ LET w == CheckWaveCompletion(Now)
     IN  Becomes([w EXCEPT !.state.playerHealth = w.player.health])
  /\ pc' = "idle"
  /\ UNCHANGED <<tankVars, aiVars, alertVars, moreVars>>

\* the fire callback of the input system: playerFire()
FireCallback ==
  /\ pc = "idle"
  /\ Len(bullets) < MaxBullets
  /\ Becomes(PlayerFire(Now))
  /\ UNCHANGED <<pc, tankVars, aiVars, alertVars, moreVars>>

\* the pause callback of the input system: togglePause() (483-491)
PauseCallback ==
  /\ pc = "idle"
  /\ ~state.gameOver
  /\ state' = [state EXCEPT !.isPaused = ~@]
  /\ UNCHANGED <<player, enemies, bullets, playerDamage, atDeath, pc,
                 tankVars, aiVars, alertVars, moreVars>>

\* setPaused(paused) (599-604), called by the host
EngineSetPaused(paused) ==
  /\ pc = "idle"
  /\ state' = [state EXCEPT !.isPaused = paused]
  /\ UNCHANGED <<player, enemies, bullets, playerDamage, atDeath, pc,
                 tankVars, aiVars, alertVars, moreVars>>

\* the click listener of init (81-85): restart() when the game is over
ClickRestart ==
  /\ pc = "idle"
  /\ state.gameOver
  /\ Becomes([InitializeGame(Now) EXCEPT !.atDeath = NoSnap])
  /\ UNCHANGED <<pc, tankVars, aiVars, alertVars, moreVars>>

Next ==
  \/ Start
  \/ Frame
  \/ \E a \in BOOLEAN : UpdatePlayer(a)
  \/ \E k \in 0..MaxBullets : UpdateEnemies(k)
  \/ \E ch \in [1..Len(bullets) -> -1..Max(1, Len(enemies))] : UpdateBullets(ch)
  \/ CheckWave
  \/ FireCallback
  \/ PauseCallback
  \/ \E paused \in BOOLEAN : EngineSetPaused(paused)
  \/ ClickRestart

Spec == Init /\ [][Next]_vars


\* C32: in every reachable state, after any number of restarts too, the
\* damage given to a newly fired player bullet, playerDamage, is
\* 25 + 5 * (wave - 1) for the current wave.
C32_PlayerDamageFollowsWave ==
  playerDamage = BaseDamage + (state.wave - 1) * DamageStep

\* what a session has credited once every enemy of the waves 1..wave is
\* destroyed: spawnWave puts 3 + 2 * (k - 1) enemies into wave k and a kill
\* in wave k adds 1 to enemiesKilled and 100 * k to score
RECURSIVE Credited(_)
Credited(wave) ==
  IF wave = 0 THEN [kills |-> 0, score |-> 0]
  ELSE LET numEnemies == enemiesPerWave + (wave - 1) * 2
           before == Credited(wave - 1)
       IN  [kills |-> before.kills + numEnemies,
            score |-> before.score + numEnemies * ScorePerKill * wave]

\* C33: each enemy is credited once, with 1 kill and 100 * wave points, and
\* nothing else changes enemiesKilled or score: in every state of a session
\* they are the credit of all the enemies spawned so far less that of the
\* living ones, so whenever victory is true, enemiesKilled = 35 and
\* score = 12500.
C33_EachEnemyCreditedOnce ==
  LET living == Cardinality({i \in 1..Len(enemies) : enemies[i].isAlive})
      all == Credited(state.wave)
  IN  /\ state.enemiesKilled = all.kills - living
      /\ state.score = all.score - living * ScorePerKill * state.wave
      /\ state.victory => state.enemiesKilled = 35 /\ state.score = 12500

\* a session won: the last enemy of wave 5 has been credited
C33_Witness ==
  /\ state.victory /\ state.score = 12500 /\ state.enemiesKilled = 35

\* C38: while the session is paused, a frame callback and a fire callback
\* leave the simulation as it is: no update step begins, so no unit,
\* projectile, timer, score, wave or kill count changes, and no projectile
\* is created.
C38_PausedCallbacksChangeNothing ==
  [][(state.isPaused /\ (Frame \/ FireCallback)) =>
       /\ pc' = "idle"
       /\ UNCHANGED <<state, player, enemies, bullets, playerDamage, atDeath>>]_vars

\* a paused running session in which the player's cooldown has run out, a
\* projectile is in flight and enemies live: the frame callback and the
\* fire callback are both taken here, and both stay in this state
C38_Witness ==
  /\ state.isPaused /\ state.isRunning /\ ~state.gameOver
  /\ pc = "idle"
  /\ CanFire(player) /\ Len(bullets) = 1 /\ Len(bullets) < MaxBullets
  /\ \E i \in 1..Len(enemies) : enemies[i].isAlive

(***************************************************************************)
(* SpecAlert: the player-bullet-hit branch of updateBullets                *)
(* (TankGameEngine.ts 356-392) on a roster of three EnemyTanks.            *)
(***************************************************************************)

\* hits made on the roster
MaxHits == 2

\* radius of the alert around the hit enemy (updateBullets 371)
alertRadius == 200

\* positions of the enemies: (120, 160) is at distance 200 from (0, 0),
\* (199, 0) at 199 and (201, 0) at 201
SquadPositions == {Vec(0, 0), Vec(120, 160), Vec(199, 0), Vec(201, 0)}

\* the position of the player at the hit
HitPlayerPosition == Vec(400, 300)

\* a position an enemy was alerted to by an earlier hit
EarlierHitPosition == Vec(380, 300)

\* an enemy as a tick can leave it: on patrol, attacking a target in
\* sight, or chasing an earlier alert that has run for 5 s
SquadUnits ==
  { [NewEnemyTank(pos, 80) EXCEPT
       !.aiState = k,
       !.velocity = CASE k = "patrol" -> "patrol"
                      [] k = "chase" -> "toward"
                      [] k = "attack" -> "zero",
       !.targetPosition = IF k = "attack" THEN HitPlayerPosition ELSE NoPos,
       !.alertedPosition = IF k = "chase" THEN EarlierHitPosition ELSE NoPos,
       !.alertTimer = IF k = "chase" THEN 3000 ELSE 0]
    : pos \in SquadPositions, k \in {"patrol", "attack", "chase"} }

\* updateBullets 367-375: the enemies near the hit one, from enemy i on
RECURSIVE AlertNearby(_, _, _, _)
AlertNearby(roster, hit, i, ppos) ==
  IF i > Len(roster) THEN roster
  ELSE LET near ==
             /\ i # hit
             /\ roster[i].isAlive
             /\ DistSq(roster[i].position, roster[hit].position)
                  < alertRadius * alertRadius
           next == IF near
                   THEN [roster EXCEPT ![i] = AlertToPosition(roster[i], ppos)]
                   ELSE roster
       IN  AlertNearby(next, hit, i + 1, ppos)

\* updateBullets 359-378: the bullet meets enemy j of the roster
HitEnemy(roster, j, ppos, damage) ==
  LET r1 == [roster EXCEPT ![j] = AlertToPosition(roster[j], ppos)]
      r2 == AlertNearby(r1, j, 1, ppos)
      r == TakeDamage(r2[j], damage)
  IN  [roster |-> [r2 EXCEPT ![j] = r.tank], killed |-> r.ret]

AlertInit ==
  /\ tank = 0 /\ tlog = 0
  /\ ai = 0 /\ aipc = "off" /\ aitick = 0 /\ ailog = 0
  /\ EngineOff /\ MoreOff
  /\ squad \in [1..3 -> SquadUnits]
  /\ hitlog = [hits |-> 0, hit |-> 0, ppos |-> NoPos, pre |-> <<>>,
               killed |-> FALSE]

\* a player bullet of the given damage overlaps the living enemy j
BulletHit(j, damage) ==
  /\ hitlog.hits < MaxHits
  /\ CheckBulletTankCollision(NewBullet(TRUE, damage), squad[j], TRUE)
  /\ LET h == HitEnemy(squad, j, HitPlayerPosition, damage)
     IN  /\ squad' = h.roster
         /\ hitlog' = [hits |-> hitlog.hits + 1, hit |-> j,
                       ppos |-> HitPlayerPosition, pre |-> squad,
                       killed |-> h.killed]
  /\ UNCHANGED <<tankVars, aiVars, engineVars, moreVars>>

AlertNext == \E j \in 1..3, damage \in {BaseDamage, 80} : BulletHit(j, damage)

SpecAlert == AlertInit /\ [][AlertNext]_vars

\* C10: after a player bullet has hit an enemy, that enemy and every other
\* living enemy at distance 200 or less from it are alerted to the player
\* position (countdown 8 s, state chase), and the living enemies farther
\* than 200 keep their alert record and their state.
C10_HitAlertsWithin200 ==
  hitlog.hit # 0 =>
    LET j == hitlog.hit
        pre == hitlog.pre
    IN  \A i \in 1..Len(squad) :
          LET d2 == DistSq(pre[i].position, pre[j].position)
              alerted ==
                /\ squad[i].alertedPosition = hitlog.ppos
                /\ squad[i].alertTimer = 8000
                /\ squad[i].aiState = "chase"
              untouched ==
                /\ squad[i].alertedPosition = pre[i].alertedPosition
                /\ squad[i].alertTimer = pre[i].alertTimer
                /\ squad[i].aiState = pre[i].aiState
          IN  /\ i = j => alerted
              /\ (i # j /\ pre[i].isAlive /\ d2 <= 200 * 200) => alerted
              /\ (i # j /\ pre[i].isAlive /\ d2 > 200 * 200) => untouched

\* C1: in every reachable state of the engine every unit, the player and
\* each enemy of the roster, is alive exactly when its health is above 0.
C1_AliveIffHealthPositive ==
  /\ player.isAlive <=> player.health > 0
  /\ \A i \in 1..Len(enemies) : enemies[i].isAlive <=> enemies[i].health > 0

\* C2: once the player has died, and until a restart, the session is over
\* without victory and the wave number is the one of the moment of death.
C2_DefeatIsTerminal ==
  atDeath # NoSnap =>
    /\ state.gameOver
    /\ ~state.victory
    /\ state.wave = atDeath.wave

\* C5: a wave check that finds the roster empty below wave 5 adds 1 to the
\* wave, heals the player to maxHealth, sets the player bullet damage to
\* 25 + 5 * (wave - 1) and spawns 3 + 2 * (wave - 1) enemies, wave being
\* the new wave number.
C5_WaveEscalation ==
  [][(pc = "wave" /\ enemies = <<>> /\ state.wave < 5) =>
       /\ state'.wave = state.wave + 1
       /\ player'.health = player.maxHealth
       /\ state'.playerHealth = player.maxHealth
       /\ playerDamage' = 25 + 5 * (state'.wave - 1)
       /\ Len(enemies') = 3 + 2 * (state'.wave - 1)
       /\ (state.wave = 1 => state'.wave = 2 /\ Len(enemies') = 5
                              /\ playerDamage' = 30)]_vars

\* wave 1 has been cleared by a damaged player: wave 2 with 5 enemies,
\* damage 30 and full health
C5_Witness ==
  /\ pc = "idle"
  /\ state.wave = 2 /\ state.enemiesKilled = 3
  /\ Len(enemies) = 5 /\ playerDamage = 30
  /\ player.isAlive /\ player.health = 100 /\ state.playerHealth = 100
  /\ \E i \in 1..Len(bullets) : ~bullets[i].isPlayerBullet

\* C6: victory is set only by a wave check that finds the roster empty at
\* wave 5; the wave number is always within 1..5; while victory stands the
\* roster stays empty and the wave stays 5.
C6_VictoryOnlyAtLastWave ==
  /\ [](/\ state.wave \in 1..5
        /\ state.victory => (state.gameOver /\ state.wave = 5 /\ enemies = <<>>))
  /\ [][(~state.victory /\ state'.victory) =>
          (pc = "wave" /\ enemies = <<>> /\ state.wave = 5 /\ state'.wave = 5
           /\ enemies' = <<>>)]_vars

\* all five waves cleared by a living player: 3 + 5 + 7 + 9 + 11 kills
C6_Witness ==
  /\ state.victory /\ state.gameOver
  /\ state.wave = 5 /\ enemies = <<>>
  /\ state.enemiesKilled = 35
  /\ player.isAlive

(***************************************************************************)
(* Geometry: GameMap (map/GameMap.ts), Wall (entities/Wall.ts 8-100) and   *)
(* CollisionSystem (systems/CollisionSystem.ts).                           *)
(* Lengths are integers in units of 1 / GeoScale of an arena unit, so that *)
(* the thirds of the map layout and the halves taken by the collision code *)
(* are exact.                                                              *)
(***************************************************************************)

GeoScale == 12

\* n arena units
G(n) == n * GeoScale

virtualWidth == 800
virtualHeight == 560
boundaryThickness == 20

\* Tank.radius of the player and of a standard enemy
baseRadius == 18

Abs(v) == IF v < 0 THEN -v ELSE v

\* Math.sign
Sign(v) == IF v > 0 THEN 1 ELSE IF v < 0 THEN -1 ELSE 0

\* new Wall(x, y, width, height), in arena units
NewWall(x, y, w, h) == [x |-> x, y |-> y, width |-> w, height |-> h]

\* GameMap.walls, in the order createBoundaryWalls and createObstacles push
\* them
Walls ==
  LET W == G(virtualWidth)
      H == G(virtualHeight)
      t == G(boundaryThickness)
  IN  << NewWall(0, 0, W, t),
         NewWall(0, H - t, W, t),
         NewWall(0, 0, t, H),
         NewWall(W - t, 0, t, H),
         NewWall(W \div 2 - G(60), H \div 2 - G(40), G(120), G(80)),
         NewWall(t + G(80), H \div 3, G(100), G(30)),
         NewWall(t + G(80), (H \div 3) * 2, G(100), G(30)),
         NewWall(W - t - G(180), H \div 3, G(100), G(30)),
         NewWall(W - t - G(180), (H \div 3) * 2, G(100), G(30)),
         NewWall(t + G(50), t + G(50), G(60), G(60)),
         NewWall(W - t - G(110), t + G(50), G(60), G(60)),
         NewWall(W \div 4 - G(30), H \div 2 - G(50), G(60), G(100)),
         NewWall((W \div 4) * 3 - G(30), H \div 2 - G(50), G(60), G(100)) >>

\* GameMap.enemySpawnPoints
EnemySpawnPoints ==
  LET W == G(virtualWidth)
      H == G(virtualHeight)
      t == G(boundaryThickness)
      margin == G(60)
  IN  { Vec(t + margin + G(100), t + margin + G(100)),
        Vec(W - t - margin - G(100), t + margin + G(100)),
        Vec(W \div 2, t + margin + G(80)),
        Vec(t + margin + G(50), H \div 2),
        Vec(W - t - margin - G(50), H \div 2) }

\* Wall.getCenter()
GetCenter(w) == Vec(w.x + w.width \div 2, w.y + w.height \div 2)

\* squared distance from (cx, cy) to the closest point of the wall
ClosestDistSq(w, cx, cy) ==
  LET closestX == Max(w.x, Min(cx, w.x + w.width))
      closestY == Max(w.y, Min(cy, w.y + w.height))
  IN  DistSq(Vec(cx, cy), Vec(closestX, closestY))

\* Wall.intersectsCircle(cx, cy, radius)
IntersectsCircle(w, cx, cy, radius) ==
  ClosestDistSq(w, cx, cy) <= radius * radius

\* a tank as the collision system sees it
NewUnit(pos, radius) == [position |-> pos, radius |-> radius, isAlive |-> TRUE]

\* resolveTankWallCollision, the body of the loop for one wall (27-50)
ResolveOneWall(t, w) ==
  IF IntersectsCircle(w, t.position.x, t.position.y, t.radius)
  THEN LET wallCenter == GetCenter(w)
           halfWidth == w.width \div 2 + t.radius
           halfHeight == w.height \div 2 + t.radius
           dx == t.position.x - wallCenter.x
           dy == t.position.y - wallCenter.y
           overlapX == halfWidth - Abs(dx)
           overlapY == halfHeight - Abs(dy)
       IN  IF overlapX < overlapY
           THEN [t EXCEPT !.position.x = wallCenter.x + Sign(dx) * halfWidth]
           ELSE [t EXCEPT !.position.y = wallCenter.y + Sign(dy) * halfHeight]
  ELSE t

\* resolveTankWallCollision, the loop from wall i on
RECURSIVE ResolveWallsFrom(_, _)
ResolveWallsFrom(t, i) ==
  IF i > Len(Walls) THEN t
  ELSE ResolveWallsFrom(ResolveOneWall(t, Walls[i]), i + 1)

\* CollisionSystem.resolveTankWallCollision(tank)
ResolveTankWallCollision(t) == IF ~t.isAlive THEN t ELSE ResolveWallsFrom(t, 1)

\* GameMap.getPlayableBounds()
GetPlayableBounds ==
  [minX |-> G(boundaryThickness),
   maxX |-> G(virtualWidth) - G(boundaryThickness),
   minY |-> G(boundaryThickness),
   maxY |-> G(virtualHeight) - G(boundaryThickness)]

\* CollisionSystem.keepTankInBounds(tank)
KeepTankInBounds(t) ==
  LET bounds == GetPlayableBounds
      margin == t.radius
  IN  [t EXCEPT
         !.position.x = Max(bounds.minX + margin,
                            Min(bounds.maxX - margin, t.position.x)),
         !.position.y = Max(bounds.minY + margin,
                            Min(bounds.maxY - margin, t.position.y))]

\* the centre of the tank is in the playable rectangle inset by its radius
InInsetBounds(t) ==
  LET bounds == GetPlayableBounds
  IN  /\ bounds.minX + t.radius <= t.position.x
      /\ t.position.x <= bounds.maxX - t.radius
      /\ bounds.minY + t.radius <= t.position.y
      /\ t.position.y <= bounds.maxY - t.radius

(***************************************************************************)
(* SpecWalls: an enemy as spawnWave places it, then ticks of               *)
(* move, resolveTankWallCollision, keepTankInBounds (updateEnemies         *)
(* 299-308).                                                               *)
(***************************************************************************)

\* ticks made by the tank
MaxWallTicks == 2

\* sizeMult of TANK_CONFIGS, in tenths: standard, fast, heavy, boss
SizeMults == {10, 8, 13, 15}

\* Math.round(18 * config.sizeMult)
TankRadius(sizeMult) == (baseRadius * sizeMult + 5) \div 10

\* (Math.random() - 0.5) * 60, in arena units
SpawnOffsets == {-30, -22, -14, -4, 0, 6, 14, 22, 29}

\* velocity * deltaTime of one tick, in arena units
WallMoves == {Vec(0, 0), Vec(9, 0), Vec(-9, 0), Vec(0, 9), Vec(0, -9)}

WallsInit ==
  /\ FirstOff
  /\ \E sp \in EnemySpawnPoints, ox \in SpawnOffsets, oy \in SpawnOffsets,
        m \in SizeMults :
       unit = NewUnit(Vec(sp.x + G(ox), sp.y + G(oy)), G(TankRadius(m)))
  /\ gpc = [at |-> "kept", ticks |-> 0]
  /\ UnitsOff /\ BulletsOff /\ InputOff /\ CoolOff /\ LoopOff /\ SpawnOff /\ PushOff /\ EngOff /\ SearchOff /\ WallPushOff /\ SepOff /\ PatrolOff /\ FleeOff

\* updateEnemies 299-304: the move
WallMove(d) ==
  /\ gpc.at = "kept" /\ gpc.ticks < MaxWallTicks
  /\ unit' = [unit EXCEPT !.position = Vec(unit.position.x + G(d.x),
                                           unit.position.y + G(d.y))]
  /\ gpc' = [gpc EXCEPT !.at = "moved"]
  /\ UNCHANGED <<firstVars, unitVars, bulletVars, inputVars, coolVars, loopVars, spawnVars, pushVars, engVars, searchVars, wallPushVars, sepVars, patrolVars, fleeVars>>

\* updateEnemies 307: resolveTankWallCollision(enemy)
WallResolve ==
  /\ gpc.at = "moved"
  /\ unit' = ResolveTankWallCollision(unit)
  /\ gpc' = [gpc EXCEPT !.at = "resolved"]
  /\ UNCHANGED <<firstVars, unitVars, bulletVars, inputVars, coolVars, loopVars, spawnVars, pushVars, engVars, searchVars, wallPushVars, sepVars, patrolVars, fleeVars>>

\* updateEnemies 308: keepTankInBounds(enemy)
WallKeep ==
  /\ gpc.at = "resolved"
  /\ unit' = KeepTankInBounds(unit)
  /\ gpc' = [at |-> "kept", ticks |-> gpc.ticks + 1]
  /\ UNCHANGED <<firstVars, unitVars, bulletVars, inputVars, coolVars, loopVars, spawnVars, pushVars, engVars, searchVars, wallPushVars, sepVars, patrolVars, fleeVars>>

WallsNext ==
  \/ \E d \in WallMoves : WallMove(d)
  \/ WallResolve
  \/ WallKeep

SpecWalls == WallsInit /\ [][WallsNext]_vars

\* C11: after resolveTankWallCollision followed by keepTankInBounds the
\* circle of a living tank intersects no wall of the map
\* (Wall.intersectsCircle is false) and its centre is in the playable
\* rectangle inset by its radius.
C11_ResolvedClearOfWalls ==
  (gpc.at = "kept" /\ gpc.ticks > 0 /\ unit.isAlive) =>
    /\ \A i \in 1..Len(Walls) :
         ~IntersectsCircle(Walls[i], unit.position.x, unit.position.y,
                           unit.radius)
    /\ InInsetBounds(unit)

(***************************************************************************)
(* SpecUnits: the positions of the player and of two enemies through the   *)
(* ticks: updatePlayer 252-266 and updateEnemies 299-315.  The tanks are   *)
(* on one horizontal line clear of the obstacles, so that distances are    *)
(* whole numbers; a step is taken when the halves of its overlaps are      *)
(* whole too.                                                              *)
(***************************************************************************)

\* ticks made
MaxUnitTicks == 2

\* both tanks alive and 0 < distance < sum of the radii
TanksOverlap(t1, t2) ==
  /\ t1.isAlive /\ t2.isAlive
  /\ DistSq(t1.position, t2.position) < (t1.radius + t2.radius) * (t1.radius + t2.radius)
  /\ DistSq(t1.position, t2.position) > 0

\* Vector2.distanceTo of two overlapping tanks whose distance is whole
TankDistance(t1, t2) ==
  CHOOSE d \in 1..(t1.radius + t2.radius) : d * d = DistSq(t1.position, t2.position)

\* the push of resolveTankTankCollision is a whole number of length units
ExactPush(t1, t2) ==
  TanksOverlap(t1, t2) =>
    /\ \E d \in 1..(t1.radius + t2.radius) : d * d = DistSq(t1.position, t2.position)
    /\ LET distance == TankDistance(t1, t2)
           overlap == t1.radius + t2.radius - distance
       IN  /\ ((t1.position.x - t2.position.x) * overlap) % (2 * distance) = 0
           /\ ((t1.position.y - t2.position.y) * overlap) % (2 * distance) = 0

\* resolveTankTankCollision that moves the first tank only, by the overlap
ResolveTankTankCollision_OneSided(t1, t2) ==
  IF TanksOverlap(t1, t2)
  THEN LET distance == TankDistance(t1, t2)
           overlap == t1.radius + t2.radius - distance
           pushX == ((t1.position.x - t2.position.x) * overlap) \div distance
           pushY == ((t1.position.y - t2.position.y) * overlap) \div distance
       IN  << [t1 EXCEPT !.position = Vec(t1.position.x + pushX,
                                          t1.position.y + pushY)],
              t2 >>
  ELSE <<t1, t2>>

\* CollisionSystem.resolveTankTankCollision(tank1, tank2): the two tanks
\* after the call
ResolveTankTankCollision(t1, t2) ==
  IF TanksOverlap(t1, t2)
  THEN LET distance == TankDistance(t1, t2)
           overlap == t1.radius + t2.radius - distance
           pushX == ((t1.position.x - t2.position.x) * overlap) \div (2 * distance)
           pushY == ((t1.position.y - t2.position.y) * overlap) \div (2 * distance)
       IN  << [t1 EXCEPT !.position = Vec(t1.position.x + pushX,
                                          t1.position.y + pushY)],
              [t2 EXCEPT !.position = Vec(t2.position.x - pushX,
                                          t2.position.y - pushY)] >>
  ELSE <<t1, t2>>

\* tank i of us resolved against the tanks js[k], js[k + 1], ... in turn
RECURSIVE ResolveAgainst(_, _, _, _)
ResolveAgainst(us, i, js, k) ==
  IF k > Len(js) THEN us
  ELSE LET r == ResolveTankTankCollision(us[i], us[js[k]])
       IN  ResolveAgainst([us EXCEPT ![i] = r[1], ![js[k]] = r[2]], i, js, k + 1)

\* every push of ResolveAgainst is whole
RECURSIVE ExactAgainst(_, _, _, _)
ExactAgainst(us, i, js, k) ==
  IF k > Len(js) THEN TRUE
  ELSE /\ ExactPush(us[i], us[js[k]])
       /\ LET r == ResolveTankTankCollision(us[i], us[js[k]])
          IN  ExactAgainst([us EXCEPT ![i] = r[1], ![js[k]] = r[2]], i, js, k + 1)

\* move, resolveTankWallCollision, keepTankInBounds of tank i
MoveResolveKeep(us, i, d) ==
  LET moved == [us[i] EXCEPT !.position = Vec(us[i].position.x + G(d.x),
                                              us[i].position.y + G(d.y))]
  IN  [us EXCEPT ![i] = KeepTankInBounds(ResolveTankWallCollision(moved))]

\* the indices of the enemies (2 and 3) other than i, in roster order
OtherEnemies(i) == SelectSeq(<<2, 3>>, LAMBDA j : j # i)

\* x of the tanks at the start, in arena units: 38 is the left edge of the
\* playable rectangle for a radius of 18
LaneXs == {38, 56, 74, 92, 110, 128}

\* y of the line, in arena units
LaneY == 500

\* velocity * deltaTime of one tick, in arena units
UnitMoves == {Vec(-9, 0), Vec(0, 0), Vec(9, 0)}

UnitsInit ==
  /\ FirstOff /\ WallsOff /\ BulletsOff /\ InputOff /\ CoolOff /\ LoopOff /\ SpawnOff /\ PushOff /\ EngOff /\ SearchOff /\ WallPushOff /\ SepOff /\ PatrolOff /\ FleeOff
  /\ \E xs \in [1..3 -> LaneXs] :
       /\ \A i, j \in 1..3 : i < j => Abs(xs[i] - xs[j]) >= 2 * baseRadius
       /\ units = [i \in 1..3 |-> NewUnit(Vec(G(xs[i]), G(LaneY)), G(baseRadius))]
  /\ upc = [at |-> "player", ticks |-> 0]

\* updatePlayer 252-266: move, walls, bounds, then each enemy
UnitsPlayer(d) ==
  /\ upc.at = "player" /\ upc.ticks < MaxUnitTicks
  /\ LET us == MoveResolveKeep(units, 1, d)
     IN  /\ ExactAgainst(us, 1, <<2, 3>>, 1)
         /\ units' = ResolveAgainst(us, 1, <<2, 3>>, 1)
  /\ upc' = [upc EXCEPT !.at = "enemy2"]
  /\ UNCHANGED <<firstVars, wallVars, bulletVars, inputVars, coolVars, loopVars, spawnVars, pushVars, engVars, searchVars, wallPushVars, sepVars, patrolVars, fleeVars>>

\* updateEnemies 299-315 for enemy i: move, walls, bounds, then each other
\* enemy
UnitsEnemy(i, d) ==
  /\ upc.at = IF i = 2 THEN "enemy2" ELSE "enemy3"
  /\ LET us == IF units[i].isAlive THEN MoveResolveKeep(units, i, d) ELSE units
     IN  /\ units[i].isAlive => ExactAgainst(us, i, OtherEnemies(i), 1)
         /\ units' = IF units[i].isAlive
                     THEN ResolveAgainst(us, i, OtherEnemies(i), 1)
                     ELSE units
  /\ upc' = IF i = 2 THEN [upc EXCEPT !.at = "enemy3"]
            ELSE [at |-> "player", ticks |-> upc.ticks + 1]
  /\ UNCHANGED <<firstVars, wallVars, bulletVars, inputVars, coolVars, loopVars, spawnVars, pushVars, engVars, searchVars, wallPushVars, sepVars, patrolVars, fleeVars>>

UnitsNext ==
  \/ \E d \in UnitMoves : UnitsPlayer(d)
  \/ \E i \in {2, 3}, d \in UnitMoves : UnitsEnemy(i, d)

SpecUnits == UnitsInit /\ [][UnitsNext]_vars

\* C12: at the end of every tick the centre of every living tank, the
\* player and each enemy, is inside the playable rectangle shrunk by the
\* radius of the tank.
C12_InBoundsAtEndOfTick ==
  (upc.at = "player" /\ upc.ticks > 0) =>
    \A i \in 1..Len(units) : units[i].isAlive => InInsetBounds(units[i])

(***************************************************************************)
(* updateBullets on the map (TankGameEngine.ts 330-417, Bullet in          *)
(* part_003 6-107): bullets, tanks and walls with positions                *)
(***************************************************************************)

\* bullet steps of a run
MaxBulletSteps == 2
\* Bullet.radius
bulletRadius == 4
\* Bullet.speed, arena units per second
bulletSpeed == 500
\* elapsed times of a tick, in ms: a 60 Hz frame and the cap of gameLoop
BulletDeltas == {16, TickDelta}

\* new Bullet(x, y, angle, isPlayerBullet, damage) with the angle given as
\* the unit vector dir; id is the place of the bullet in the initial list
NewBulletAt(id, pos, dir, isPlayerBullet, damage) ==
  NewBullet(isPlayerBullet, damage) @@
  [id |-> id, position |-> pos, radius |-> G(bulletRadius),
   velocity |-> Vec(dir.x * bulletSpeed, dir.y * bulletSpeed)]

\* Bullet.update(deltaTime): position += velocity * deltaTime
BulletUpdate(b, dt) ==
  IF ~b.isActive THEN b
  ELSE [b EXCEPT !.position = Vec(@.x + (b.velocity.x * dt * GeoScale) \div 1000,
                                  @.y + (b.velocity.y * dt * GeoScale) \div 1000)]

\* Bullet.isOutOfBounds(width, height)
IsOutOfBounds(b, width, height) ==
  \/ b.position.x < -b.radius
  \/ b.position.x > width + b.radius
  \/ b.position.y < -b.radius
  \/ b.position.y > height + b.radius

\* checkBulletWallCollision that looks at the four boundary walls only
CheckBulletWallCollision_BoundaryOnly(b) ==
  /\ b.isActive
  /\ \E i \in 1..4 :
       IntersectsCircle(Walls[i], b.position.x, b.position.y, b.radius)

\* checkBulletWallCollision(bullet)
CheckBulletWallCollision(b) ==
  /\ b.isActive
  /\ \E i \in 1..Len(Walls) :
       IntersectsCircle(Walls[i], b.position.x, b.position.y, b.radius)

\* distance < bullet.radius + tank.radius of checkBulletTankCollision
BulletOverlapsTank(b, t) ==
  DistSq(b.position, t.position) < (b.radius + t.radius) * (b.radius + t.radius)

\* the first enemy of the roster, from index j on, that
\* checkBulletTankCollision accepts for bullet b (0 if none): the loop of
\* updateBullets 357-392 up to its break
RECURSIVE FirstEnemyHit(_, _, _)
FirstEnemyHit(b, roster, j) ==
  IF j > Len(roster) THEN 0
  ELSE IF CheckBulletTankCollision(b, roster[j], BulletOverlapsTank(b, roster[j]))
       THEN j
       ELSE FirstEnemyHit(b, roster, j + 1)

\* what bullet i meets after its move, in the order updateBullets tests it:
\* bounds, walls, then the tanks of the other side
BulletMeets(w, i) ==
  LET b == w.bullets[i]
  IN  IF IsOutOfBounds(b, G(virtualWidth), G(virtualHeight)) THEN -1
      ELSE IF CheckBulletWallCollision(b) THEN -1
      ELSE IF b.isPlayerBullet THEN FirstEnemyHit(b, w.enemies, 1)
      ELSE IF CheckBulletTankCollision(b, w.player, BulletOverlapsTank(b, w.player))
           THEN 1 ELSE 0

\* updateBullets, the loop from bullet i on: an active bullet moves and is
\* then tested (331-413)
RECURSIVE MoveAndProcessBullets(_, _, _)
MoveAndProcessBullets(w, i, dt) ==
  IF i > Len(w.bullets) THEN w
  ELSE IF ~w.bullets[i].isActive THEN MoveAndProcessBullets(w, i + 1, dt)
  ELSE LET moved == [w EXCEPT !.bullets[i] = BulletUpdate(@, dt)]
       IN  MoveAndProcessBullets(ProcessBullet(moved, i, BulletMeets(moved, i)),
                                 i + 1, dt)

\* updateBullets(deltaTime): the loop, then the filter of line 416
UpdateBulletsOnMap(w, dt) ==
  LET done == MoveAndProcessBullets(w, 1, dt)
  IN  [done EXCEPT !.bullets = SelectSeq(@, IsActiveBullet)]

\* the scene: the player and two standard enemies in the open lane below
\* the obstacles
ScenePlayerPos == Vec(G(100), G(500))
SceneEnemyPos == << Vec(G(400), G(500)), Vec(G(600), G(500)) >>
\* health of the units when the scene starts
ScenePlayerHealths == {StandardDamage, PlayerHealth}
SceneEnemyHealths == {BaseDamage, 2 * BaseDamage, 80}

\* bullets in flight when the scene starts: position (arena units),
\* direction, side
BulletStarts ==
  { <<Vec(340, 500), Vec(1, 0), TRUE>>,
    <<Vec(350, 500), Vec(1, 0), TRUE>>,
    <<Vec(372, 500), Vec(1, 0), TRUE>>,
    <<Vec(200, 500), Vec(1, 0), TRUE>>,
    <<Vec(726, 500), Vec(1, 0), TRUE>>,
    <<Vec(770, 500), Vec(1, 0), TRUE>>,
    <<Vec(400, 330), Vec(0, -1), TRUE>>,
    <<Vec(150, 500), Vec(-1, 0), FALSE>>,
    <<Vec(160, 500), Vec(-1, 0), FALSE>>,
    <<Vec(300, 500), Vec(0, 1), FALSE>> }
\* bullets in flight at once in the scene
MaxSceneBullets == 3

SceneTank(t, pos) == t @@ [position |-> pos, radius |-> G(baseRadius)]

BulletsInit ==
  /\ FirstOff /\ WallsOff /\ UnitsOff /\ InputOff /\ CoolOff /\ LoopOff /\ SpawnOff /\ PushOff /\ EngOff /\ SearchOff /\ WallPushOff /\ SepOff /\ PatrolOff /\ FleeOff
  /\ \E ph \in ScenePlayerHealths, eh \in SceneEnemyHealths,
        n \in 1..MaxSceneBullets :
       \E starts \in [1..n -> BulletStarts] :
         bw = World(InitialState,
                    SceneTank([NewPlayerTank EXCEPT !.health = ph], ScenePlayerPos),
                    << SceneTank([NewStandardEnemy(1) EXCEPT !.health = eh],
                                 SceneEnemyPos[1]),
                       SceneTank(NewStandardEnemy(1), SceneEnemyPos[2]) >>,
                    [k \in 1..n |->
                       NewBulletAt(k, Vec(G(starts[k][1].x), G(starts[k][1].y)),
                                   starts[k][2], starts[k][3],
                                   IF starts[k][3] THEN BaseDamage
                                   ELSE StandardDamage)],
                    BaseDamage, NoSnap)
  /\ blog = [at |-> "bullets", steps |-> 0, dt |-> 0, pre |-> 0]

\* update() 226: updateBullets, unless the game is over
BulletStep(dt) ==
  /\ blog.at = "bullets"
  /\ blog.steps < MaxBulletSteps
  /\ ~bw.state.gameOver
  /\ bw' = UpdateBulletsOnMap(bw, dt)
  /\ blog' = [at |-> "enemies", steps |-> blog.steps + 1, dt |-> dt, pre |-> bw]
  /\ UNCHANGED <<firstVars, wallVars, unitVars, inputVars, coolVars, loopVars, spawnVars, pushVars, engVars, searchVars, wallPushVars, sepVars, patrolVars, fleeVars>>

\* updateEnemies of the next tick, line 326: dead enemies leave the roster
BulletEnemies ==
  /\ blog.at = "enemies"
  /\ ~bw.state.gameOver
  /\ bw' = [bw EXCEPT !.enemies = SelectSeq(@, IsAliveTank)]
  /\ blog' = [blog EXCEPT !.at = "bullets"]
  /\ UNCHANGED <<firstVars, wallVars, unitVars, inputVars, coolVars, loopVars, spawnVars, pushVars, engVars, searchVars, wallPushVars, sepVars, patrolVars, fleeVars>>

BulletsNext ==
  \/ \E dt \in BulletDeltas : BulletStep(dt)
  \/ BulletEnemies

SpecBullets == BulletsInit /\ [][BulletsNext]_vars

\* the circle of bullet b reaches inside wall w: the distance from the
\* closest point of the rectangle to the centre is less than the radius
BulletInWall(b, w) ==
  ClosestDistSq(w, b.position.x, b.position.y) < b.radius * b.radius

\* the tanks bullet b can hit in world w: the enemies for a player bullet,
\* the player for an enemy bullet
OpposingUnits(w, b) == IF b.isPlayerBullet THEN w.enemies ELSE << w.player >>

\* bullet k of the world before the step, where its move of the step took it
MovedBullet(k) == BulletUpdate(blog.pre.bullets[k], blog.dt)

\* a bullet of the list before the step with a smaller index overlaps,
\* after its move, unit j of the side opposing bullet k
EarlierBulletOverlaps(k, j) ==
  \E e \in 1..(k - 1) :
    /\ blog.pre.bullets[e].isPlayerBullet = blog.pre.bullets[k].isPlayerBullet
    /\ BulletOverlapsTank(MovedBullet(e), OpposingUnits(blog.pre, MovedBullet(e))[j])

\* bullet k of the list before the step left the arena, reached inside a
\* wall, or overlapped a unit of the other side that was alive when the
\* bullet was processed
BulletMetSomething(k) ==
  LET b == MovedBullet(k)
      before == OpposingUnits(blog.pre, b)
      after == OpposingUnits(bw, b)
  IN  \/ IsOutOfBounds(b, G(virtualWidth), G(virtualHeight))
      \/ \E i \in 1..Len(Walls) : BulletInWall(b, Walls[i])
      \/ \E j \in 1..Len(before) :
           /\ BulletOverlapsTank(b, before[j])
           /\ before[j].isAlive
           /\ after[j].isAlive \/ ~EarlierBulletOverlaps(k, j)

\* C13: after the bullet step every bullet of the list is active, inside
\* the arena bounds extended by its radius, reaches inside no wall and
\* overlaps no living unit of the other side; a bullet that left the
\* bounds, met a wall or met a living unit of the other side in the step is
\* no longer in the list.
C13_BulletsAfterStep ==
  (blog.at = "enemies") =>
    /\ \A i \in 1..Len(bw.bullets) :
         LET b == bw.bullets[i]
             opp == OpposingUnits(bw, b)
         IN  /\ b.isActive
             /\ ~IsOutOfBounds(b, G(virtualWidth), G(virtualHeight))
             /\ \A j \in 1..Len(Walls) : ~BulletInWall(b, Walls[j])
             /\ \A j \in 1..Len(opp) :
                  opp[j].isAlive => ~BulletOverlapsTank(b, opp[j])
    /\ \A k \in 1..Len(blog.pre.bullets) :
         BulletMetSomething(k) =>
           \A i \in 1..Len(bw.bullets) : bw.bullets[i].id # blog.pre.bullets[k].id

\* a step in which one bullet left the bounds, one reached an obstacle and
\* one hit a living enemy, and all three are gone
C13_Witness ==
  /\ blog.at = "enemies"
  /\ Len(blog.pre.bullets) = 3 /\ bw.bullets = <<>>
  /\ \E k \in 1..3 :
       IsOutOfBounds(MovedBullet(k), G(virtualWidth), G(virtualHeight))
  /\ \E k \in 1..3 : BulletInWall(MovedBullet(k), Walls[5])
  /\ \E k \in 1..3 :
       /\ BulletOverlapsTank(MovedBullet(k), blog.pre.enemies[1])
       /\ blog.pre.enemies[1].isAlive
       /\ bw.enemies[1].health < blog.pre.enemies[1].health

\* player bullet k of the list before the step reaches enemy j after its
\* move: it stays in bounds, meets no wall and overlaps the enemy
BulletReachesEnemy(k, j) ==
  LET b == MovedBullet(k)
  IN  /\ b.isPlayerBullet /\ b.isActive
      /\ ~IsOutOfBounds(b, G(virtualWidth), G(virtualHeight))
      /\ ~CheckBulletWallCollision(b)
      /\ BulletOverlapsTank(b, blog.pre.enemies[j])
      /\ \A o \in 1..Len(blog.pre.enemies) :
           o # j => ~BulletOverlapsTank(b, blog.pre.enemies[o])

\* the bullets before bullet k in the list that reach enemy j in the step
EarlierReaching(k, j) == {e \in 1..(k - 1) : BulletReachesEnemy(e, j)}

\* enemy j was alive before the step and the bullets before bullet k that
\* reach it carry at least its health in damage: when bullet k, which
\* reaches it too, is resolved, the enemy was already killed in this step
ReachesKilledEnemy(k, j) ==
  /\ blog.at = "enemies"
  /\ k \in 1..Len(blog.pre.bullets) /\ j \in 1..Len(blog.pre.enemies)
  /\ blog.pre.enemies[j].isAlive
  /\ BulletReachesEnemy(k, j)
  /\ Cardinality(EarlierReaching(k, j)) * blog.pre.playerDamage
       >= blog.pre.enemies[j].health

\* the enemies that were alive before the step and are dead after it
KilledInStep ==
  {j \in 1..Len(blog.pre.enemies) :
     blog.pre.enemies[j].isAlive /\ ~bw.enemies[j].isAlive}

\* the kill count and the score rose by one kill for each enemy killed in
\* the step, and every enemy killed has health 0
OneKillEach ==
  /\ bw.state.enemiesKilled =
       blog.pre.state.enemiesKilled + Cardinality(KilledInStep)
  /\ bw.state.score =
       blog.pre.state.score
         + ScorePerKill * blog.pre.state.wave * Cardinality(KilledInStep)
  /\ \A j \in KilledInStep : bw.enemies[j].health = 0

\* bullet k of the list before the step is in the list after it
BulletSurvives(k) ==
  \E i \in 1..Len(bw.bullets) :
    bw.bullets[i].id = blog.pre.bullets[k].id /\ bw.bullets[i].isActive

\* C14 as stated: a bullet that reaches an enemy killed earlier in the same
\* step hits it and is deactivated, the enemy's health stays 0, and no
\* second kill or score is produced.
C14_SecondBulletHitsDeadUnit ==
  \A k \in 1..MaxSceneBullets, j \in 1..2 :
    ReachesKilledEnemy(k, j) =>
      /\ ~BulletSurvives(k)
      /\ bw.enemies[j].health = 0 /\ ~bw.enemies[j].isAlive
      /\ OneKillEach

\* C14, amended: a bullet that reaches an enemy killed earlier in the same
\* step does not hit it: the bullet stays active and in the list, the
\* enemy's health stays 0, and the step counts one kill and one score
\* award for each enemy killed.
C14_SecondBulletPassesDeadUnit ==
  \A k \in 1..MaxSceneBullets, j \in 1..2 :
    ReachesKilledEnemy(k, j) =>
      /\ BulletSurvives(k)
      /\ bw.enemies[j].health = 0 /\ ~bw.enemies[j].isAlive
      /\ OneKillEach

\* the first enemy, at health 25, is killed by the first of two bullets
\* that reach it in the same step; the second is still in flight
C14_Witness ==
  /\ ReachesKilledEnemy(2, 1)
  /\ blog.pre.enemies[1].health = BaseDamage
  /\ bw.enemies[1].health = 0
  /\ bw.state.enemiesKilled = 1
  /\ BulletSurvives(2)

\* the world of the step when the loop of updateBullets has dealt with the
\* first n bullets of the list: a bullet changes no bullet but itself, so
\* the rest of the list is as it was before the step
AfterBullets(n) ==
  LET w == MoveAndProcessBullets(
             [blog.pre EXCEPT !.bullets = SubSeq(@, 1, n)], 1, blog.dt)
  IN  [w EXCEPT !.bullets = @ \o SubSeq(blog.pre.bullets, n + 1,
                                        Len(blog.pre.bullets))]

\* the units of the side opposing bullet k that bullet k changed
DamagedBy(k) ==
  LET b == blog.pre.bullets[k]
      before == OpposingUnits(AfterBullets(k - 1), b)
      after == OpposingUnits(AfterBullets(k), b)
  IN  {j \in 1..Len(before) : after[j] # before[j]}

\* C34: a projectile applies its damage to at most one unit, once, and
\* only to the opposing side: it changes no unit of its own side, and the
\* one unit it changes loses its damage (down to 0 at most); a projectile
\* that has hit is inactive from then on in the step and is not in the list
\* after it.
C34_OneHitOnOpposingSide ==
  (blog.at = "enemies") =>
    \A k \in 1..Len(blog.pre.bullets) :
      LET b == blog.pre.bullets[k]
          w0 == AfterBullets(k - 1)
          w1 == AfterBullets(k)
      IN  /\ b.isPlayerBullet => w1.player = w0.player
          /\ ~b.isPlayerBullet => w1.enemies = w0.enemies
          /\ Cardinality(DamagedBy(k)) <= 1
          /\ \A j \in DamagedBy(k) :
                /\ OpposingUnits(w1, b)[j].health =
                     Max(0, OpposingUnits(w0, b)[j].health - b.damage)
                /\ ~w1.bullets[k].isActive
                /\ ~AfterBullets(Len(blog.pre.bullets)).bullets[k].isActive
                /\ ~BulletSurvives(k)

\* a step in which a player bullet damaged an enemy and an enemy bullet
\* damaged the player
C34_Witness ==
  /\ blog.at = "enemies"
  /\ \E k \in 1..Len(blog.pre.bullets) :
       blog.pre.bullets[k].isPlayerBullet /\ DamagedBy(k) # {}
  /\ \E k \in 1..Len(blog.pre.bullets) :
       ~blog.pre.bullets[k].isPlayerBullet /\ DamagedBy(k) # {}

(***************************************************************************)
(* InputSystem (systems/RenderSystem.ts 426-519) and the pause switch of   *)
(* the engine (TankGameEngine.ts 483-491, 599-604)                         *)
(***************************************************************************)

\* input events of a run
MaxInputEvents == 5
\* the keys with a callback: e.key.toLowerCase()
CallbackKeys == {"p", "escape", " "}

\* InputSystem.reset(): fire is cleared, pause is not
InputReset(s) == [s EXCEPT !.fire = FALSE]

\* setPaused(paused) (599-604)
SetPaused(s, paused) ==
  LET t == [s EXCEPT !.isPaused = paused]
  IN  IF paused THEN InputReset(t) ELSE t

\* togglePause() (483-491), the pause callback
TogglePause(s) ==
  IF s.gameOver THEN s
  ELSE LET t == [s EXCEPT !.isPaused = ~s.isPaused]
       IN  IF t.isPaused THEN InputReset(t) ELSE t

\* handleKeyDown(e) for a key with a callback: the input state after it and
\* whether the callback of the key was invoked
HandleKeyDown(s, key) ==
  IF key \in {"p", "escape"}
  THEN IF ~s.pause
       THEN [s |-> TogglePause([s EXCEPT !.pause = TRUE]), called |-> TRUE]
       ELSE [s |-> s, called |-> FALSE]
  ELSE IF ~s.fire
       THEN [s |-> [s EXCEPT !.fire = TRUE], called |-> TRUE]
       ELSE [s |-> s, called |-> FALSE]

\* handleKeyUp(e) for a key with a callback
HandleKeyUp(s, key) ==
  IF key \in {"p", "escape"} THEN [s EXCEPT !.pause = FALSE]
  ELSE [s EXCEPT !.fire = FALSE]

InputInit ==
  /\ FirstOff /\ WallsOff /\ UnitsOff /\ BulletsOff /\ CoolOff /\ LoopOff /\ SpawnOff /\ PushOff /\ EngOff /\ SearchOff /\ WallPushOff /\ SepOff /\ PatrolOff /\ FleeOff
  /\ \E over \in BOOLEAN :
       inp = [fire |-> FALSE, pause |-> FALSE, isPaused |-> FALSE, gameOver |-> over]
  /\ ilog = [held |-> {}, calls |-> [k \in CallbackKeys |-> 0], events |-> 0]

\* a keydown event for key: the press itself if the key was up, an
\* auto-repeat if it is held.  calls[key] counts the invocations of the
\* callback by keydown events of the key since its last key-up
KeyDown(key) ==
  /\ ilog.events < MaxInputEvents
  /\ LET r == HandleKeyDown(inp, key)
     IN  /\ inp' = r.s
         /\ ilog' = [held |-> ilog.held \cup {key},
                     calls |-> IF r.called
                               THEN [ilog.calls EXCEPT ![key] = @ + 1]
                               ELSE ilog.calls,
                     events |-> ilog.events + 1]
  /\ UNCHANGED <<firstVars, wallVars, unitVars, bulletVars, coolVars, loopVars, spawnVars, pushVars, engVars, searchVars, wallPushVars, sepVars, patrolVars, fleeVars>>

\* the keyup event of a held key
KeyUp(key) ==
  /\ ilog.events < MaxInputEvents
  /\ key \in ilog.held
  /\ inp' = HandleKeyUp(inp, key)
  /\ ilog' = [held |-> ilog.held \ {key},
              calls |-> [ilog.calls EXCEPT ![key] = 0],
              events |-> ilog.events + 1]
  /\ UNCHANGED <<firstVars, wallVars, unitVars, bulletVars, coolVars, loopVars, spawnVars, pushVars, engVars, searchVars, wallPushVars, sepVars, patrolVars, fleeVars>>

\* the host pauses or resumes the game: setPaused(paused)
HostSetPaused(paused) ==
  /\ ilog.events < MaxInputEvents
  /\ inp' = SetPaused(inp, paused)
  /\ ilog' = [ilog EXCEPT !.events = @ + 1]
  /\ UNCHANGED <<firstVars, wallVars, unitVars, bulletVars, coolVars, loopVars, spawnVars, pushVars, engVars, searchVars, wallPushVars, sepVars, patrolVars, fleeVars>>

InputNext ==
  \/ \E key \in CallbackKeys : KeyDown(key)
  \/ \E key \in CallbackKeys : KeyUp(key)
  \/ \E paused \in BOOLEAN : HostSetPaused(paused)

SpecInput == InputInit /\ [][InputNext]_vars

\* C15: the fire and pause callbacks are edge-triggered: between two
\* invocations of the callback by keydown events of the same key there is a
\* key-up of that key, so a press, auto-repeats included, invokes it at most
\* once.
C15_EdgeTriggered ==
  \A key \in CallbackKeys : ilog.calls[key] <= 1

(***************************************************************************)
(* Fire cooldown: PlayerTank.update (part_004 28-33), EnemyTank.update     *)
(* (Wall.ts 295-301), canFire and resetFireCooldown                        *)
(***************************************************************************)

\* ticks of a run
MaxCoolTicks == 15
\* elapsed times of a tick in ms, up to the cap of gameLoop
CoolDeltas == {16, TickDelta}

\* EnemyTank.update(deltaTime), the cooldown lines (296-301)
EnemyCooldown(e, dt) ==
  IF ~e.isAlive THEN e
  ELSE IF e.fireCooldown > 0 THEN [e EXCEPT !.fireCooldown = @ - dt] ELSE e

\* no shot yet
NoShot == -1

\* the longest time kept track of: above every fire interval plus variation
SinceCap == 1500

\* simulated time since the latest shot of a unit, after a tick of dt
SinceShot(since, dt) ==
  IF since = NoShot THEN NoShot ELSE Min(since + dt, SinceCap)

\* sincePlayer, sinceEnemy: simulated time since the unit's latest shot;
\* jitter: the variation drawn at the enemy's latest shot; op, at, gap: the
\* latest step, and for a shot the cooldown it found and the simulated time
\* since the shot before it
CoolInit ==
  /\ FirstOff /\ WallsOff /\ UnitsOff /\ BulletsOff /\ InputOff /\ LoopOff /\ SpawnOff /\ PushOff /\ EngOff /\ SearchOff /\ WallPushOff /\ SepOff /\ PatrolOff /\ FleeOff
  /\ cool = [player |-> [fireCooldown |-> 0],
             enemy |-> [fireCooldown |-> 0, isAlive |-> TRUE],
             ticks |-> 0,
             sincePlayer |-> NoShot, sinceEnemy |-> NoShot, jitter |-> 0,
             op |-> "new", at |-> 0, gap |-> NoShot, owed |-> 0]

\* update(deltaTime): player.update and enemy.update
CoolTick(dt) ==
  /\ cool.ticks < MaxCoolTicks
  /\ cool' = [cool EXCEPT !.player = PlayerUpdate(@, dt),
                          !.enemy = EnemyCooldown(@, dt),
                          !.ticks = @ + 1,
                          !.sincePlayer = SinceShot(@, dt),
                          !.sinceEnemy = SinceShot(@, dt),
                          !.op = "tick", !.at = 0, !.gap = NoShot, !.owed = 0]
  /\ UNCHANGED <<firstVars, wallVars, unitVars, bulletVars, inputVars, loopVars, spawnVars, pushVars, engVars, searchVars, wallPushVars, sepVars, patrolVars, fleeVars>>

\* the fire callback and the auto-fire of updatePlayer (273): playerFire()
\* 420-437 shoots when canFire() and returns otherwise
CoolPlayerFire ==
  /\ cool' = IF CanFire(cool.player)
             THEN [cool EXCEPT !.player = ResetFireCooldown(@),
                               !.sincePlayer = 0,
                               !.op = "playerShot",
                               !.at = cool.player.fireCooldown,
                               !.gap = cool.sincePlayer,
                               !.owed = PlayerFireInterval]
             ELSE [cool EXCEPT !.op = "playerHeld", !.at = 0, !.gap = NoShot, !.owed = 0]
  /\ UNCHANGED <<firstVars, wallVars, unitVars, bulletVars, inputVars, loopVars, spawnVars, pushVars, engVars, searchVars, wallPushVars, sepVars, patrolVars, fleeVars>>

\* updateEnemies 320-322: enemyFire(enemy) when shouldFire(), which needs
\* canFire()
CoolEnemyFire(jitter) ==
  /\ cool.enemy.isAlive
  /\ cool' = IF CanFire(cool.enemy)
             THEN [cool EXCEPT
                     !.enemy = EnemyResetFireCooldown(@, StandardFireInterval, jitter),
                     !.sinceEnemy = 0,
                     !.jitter = jitter,
                     !.op = "enemyShot",
                     !.at = cool.enemy.fireCooldown,
                     !.gap = cool.sinceEnemy,
                     !.owed = StandardFireInterval + cool.jitter]
             ELSE [cool EXCEPT !.op = "enemyHeld", !.at = 0, !.gap = NoShot, !.owed = 0]
  /\ UNCHANGED <<firstVars, wallVars, unitVars, bulletVars, inputVars, loopVars, spawnVars, pushVars, engVars, searchVars, wallPushVars, sepVars, patrolVars, fleeVars>>

CoolNext ==
  \/ \E dt \in CoolDeltas : CoolTick(dt)
  \/ CoolPlayerFire
  \/ \E jitter \in Jitters : CoolEnemyFire(jitter)

SpecCooldown == CoolInit /\ [][CoolNext]_vars

\* C16 as stated: the fire cooldown of every unit is at least 0 in every
\* reachable state.
C16_CooldownNonNegative ==
  cool.player.fireCooldown >= 0 /\ cool.enemy.fireCooldown >= 0

\* C16, amended: the fire cooldown of every unit stays above minus the
\* largest elapsed time of a tick (0.1 s): it is counted down only while
\* positive, by at most the clamped elapsed time.
C16_CooldownAboveMinusCap ==
  cool.player.fireCooldown > -TickDelta /\ cool.enemy.fireCooldown > -TickDelta

\* the player fired and four ticks of 100 ms later the cooldown is
\* 333 - 400 = -67 ms
C16_Witness ==
  cool.player.fireCooldown = PlayerFireInterval - 4 * TickDelta

\* C24: a unit shoots only when canFire() holds, and between two
\* consecutive shots of the same unit at least 1/fireRate of simulated tick
\* time elapses (for the enemy: plus the variation drawn at the earlier
\* shot), for every interleaving of fire callbacks, auto-fire and ticks.
C24_ShotsRespectFireRate ==
  cool.op \in {"playerShot", "enemyShot"} =>
    /\ cool.at <= 0
    /\ cool.gap # NoShot => cool.gap >= cool.owed

\* the enemy shoots again after a shot that drew a variation of 499 ms,
\* and the player shoots again inside that wait
C24_Witness ==
  /\ cool.op = "enemyShot" /\ cool.gap # NoShot
  /\ cool.owed = StandardFireInterval + 499
  /\ cool.sincePlayer # NoShot /\ cool.sincePlayer < cool.gap

(***************************************************************************)
(* The game loop: start, stop, gameLoop, togglePause, setPaused, restart,   *)
(* dispose (TankGameEngine.ts 178-210, 483-496, 588-604) and the frame      *)
(* requests of requestAnimationFrame / cancelAnimationFrame                *)
(***************************************************************************)

\* events of a run
MaxLoopEvents == 7
\* wall-clock gaps between two events, in ms: a frame, a stall
ClockGaps == {16, 5000}

\* gameLoop() without the isRunning test of line 197
GameLoop_NoGuard(s, now, dies) ==
  LET deltaTime == Min(now - s.lastTime, TickDelta)
      updates == ~s.isPaused /\ ~s.gameOver
  IN  [s |-> [s EXCEPT !.lastTime = now,
                       !.gameOver = @ \/ (updates /\ dies),
                       !.animationId = s.nextId,
                       !.pending = @ \cup {s.nextId},
                       !.nextId = @ + 1],
       worked |-> TRUE, updated |-> updates, delta |-> deltaTime]

\* gameLoop() that passes the whole elapsed time to update
GameLoop_NoCap(s, now, dies) ==
  IF ~s.isRunning
  THEN [s |-> s, worked |-> FALSE, updated |-> FALSE, delta |-> 0]
  ELSE LET deltaTime == now - s.lastTime
           updates == ~s.isPaused /\ ~s.gameOver
       IN  [s |-> [s EXCEPT !.lastTime = now,
                            !.gameOver = @ \/ (updates /\ dies),
                            !.animationId = s.nextId,
                            !.pending = @ \cup {s.nextId},
                            !.nextId = @ + 1],
            worked |-> TRUE, updated |-> updates, delta |-> deltaTime]

\* gameLoop() (196-210) at clock time now; dies: update() ends the game.
\* The result is the engine after it, whether it got past line 197, whether
\* it called update and the deltaTime it computed
GameLoop(s, now, dies) ==
  IF ~s.isRunning
  THEN [s |-> s, worked |-> FALSE, updated |-> FALSE, delta |-> 0]
  ELSE LET deltaTime == Min(now - s.lastTime, TickDelta)
           updates == ~s.isPaused /\ ~s.gameOver
       IN  [s |-> [s EXCEPT !.lastTime = now,
                            !.gameOver = @ \/ (updates /\ dies),
                            !.animationId = s.nextId,
                            !.pending = @ \cup {s.nextId},
                            !.nextId = @ + 1],
            worked |-> TRUE, updated |-> updates, delta |-> deltaTime]

\* what an event leaves in the log
LoopLog(op, r, pre, stopped) ==
  [now |-> llog.now, events |-> llog.events + 1, stopped |-> stopped,
   last |-> [op |-> op, worked |-> r.worked, updated |-> r.updated,
             delta |-> r.delta, gap |-> llog.now - pre.lastTime,
             paused |-> pre.isPaused, over |-> pre.gameOver,
             running |-> pre.isRunning]]

NoLoopRun == [worked |-> FALSE, updated |-> FALSE, delta |-> 0]

\* the engine after init(): initializeGame has run, nothing is scheduled
LoopInit ==
  /\ FirstOff /\ WallsOff /\ UnitsOff /\ BulletsOff /\ InputOff /\ CoolOff /\ SpawnOff /\ PushOff /\ EngOff /\ SearchOff /\ WallPushOff /\ SepOff /\ PatrolOff /\ FleeOff
  /\ loop = [isRunning |-> FALSE, isPaused |-> FALSE, gameOver |-> FALSE,
             lastTime |-> 0, animationId |-> 0, pending |-> {}, nextId |-> 1]
  /\ llog = [now |-> 0, events |-> 0, stopped |-> FALSE,
             last |-> [op |-> "init", worked |-> FALSE, updated |-> FALSE,
                       delta |-> 0, gap |-> 0, paused |-> FALSE, over |-> FALSE,
                       running |-> FALSE]]

\* performance.now() advances
LoopWait(gap) ==
  /\ llog.events < MaxLoopEvents
  /\ llog' = [llog EXCEPT !.now = @ + gap, !.events = @ + 1]
  /\ UNCHANGED <<loop, firstVars, wallVars, unitVars, bulletVars, inputVars, coolVars, spawnVars, pushVars, engVars, searchVars, wallPushVars, sepVars, patrolVars, fleeVars>>

\* start() (178-184)
LoopStart(dies) ==
  /\ llog.events < MaxLoopEvents
  /\ LET r == IF loop.isRunning
              THEN [s |-> loop] @@ NoLoopRun
              ELSE GameLoop([loop EXCEPT !.isRunning = TRUE, !.lastTime = llog.now],
                            llog.now, dies)
     IN  /\ loop' = r.s
         /\ llog' = LoopLog("start", r, [loop EXCEPT !.lastTime = llog.now], FALSE)
  /\ UNCHANGED <<firstVars, wallVars, unitVars, bulletVars, inputVars, coolVars, spawnVars, pushVars, engVars, searchVars, wallPushVars, sepVars, patrolVars, fleeVars>>

\* stop() (187-193); dispose() (588-591) is stop() and the removal of the
\* key and pointer listeners
LoopStop(dispose) ==
  /\ llog.events < MaxLoopEvents
  /\ loop' = [loop EXCEPT !.isRunning = FALSE,
                          !.pending = IF loop.animationId # 0
                                      THEN @ \ {loop.animationId} ELSE @,
                          !.animationId = 0]
  /\ llog' = LoopLog(IF dispose THEN "dispose" ELSE "stop",
                     NoLoopRun, loop, TRUE)
  /\ UNCHANGED <<firstVars, wallVars, unitVars, bulletVars, inputVars, coolVars, spawnVars, pushVars, engVars, searchVars, wallPushVars, sepVars, patrolVars, fleeVars>>

\* the browser runs the frame request id: gameLoop()
LoopFrame(id, dies) ==
  /\ llog.events < MaxLoopEvents
  /\ id \in loop.pending
  /\ LET r == GameLoop([loop EXCEPT !.pending = @ \ {id}], llog.now, dies)
     IN  /\ loop' = r.s
         /\ llog' = LoopLog("frame", r, loop, llog.stopped)
  /\ UNCHANGED <<firstVars, wallVars, unitVars, bulletVars, inputVars, coolVars, spawnVars, pushVars, engVars, searchVars, wallPushVars, sepVars, patrolVars, fleeVars>>

\* the pause callback: togglePause() (483-491)
LoopTogglePause ==
  /\ llog.events < MaxLoopEvents
  /\ ~loop.gameOver
  /\ loop' = [loop EXCEPT !.isPaused = ~@]
  /\ llog' = LoopLog("pause", NoLoopRun, loop, llog.stopped)
  /\ UNCHANGED <<firstVars, wallVars, unitVars, bulletVars, inputVars, coolVars, spawnVars, pushVars, engVars, searchVars, wallPushVars, sepVars, patrolVars, fleeVars>>

\* setPaused(paused) (599-604), called by the host
LoopSetPaused(paused) ==
  /\ llog.events < MaxLoopEvents
  /\ loop' = [loop EXCEPT !.isPaused = paused]
  /\ llog' = LoopLog("setPaused", NoLoopRun, loop, llog.stopped)
  /\ UNCHANGED <<firstVars, wallVars, unitVars, bulletVars, inputVars, coolVars, spawnVars, pushVars, engVars, searchVars, wallPushVars, sepVars, patrolVars, fleeVars>>

\* the click listener of init (81-85): restart(), and with it
\* initializeGame(), whose new state object has isRunning false
LoopRestart ==
  /\ llog.events < MaxLoopEvents
  /\ loop.gameOver
  /\ loop' = [loop EXCEPT !.isRunning = InitialState.isRunning,
                          !.isPaused = InitialState.isPaused,
                          !.gameOver = InitialState.gameOver]
  /\ llog' = LoopLog("restart", NoLoopRun, loop, llog.stopped)
  /\ UNCHANGED <<firstVars, wallVars, unitVars, bulletVars, inputVars, coolVars, spawnVars, pushVars, engVars, searchVars, wallPushVars, sepVars, patrolVars, fleeVars>>

LoopNext ==
  \/ \E gap \in ClockGaps : LoopWait(gap)
  \/ \E dies \in BOOLEAN : LoopStart(dies)
  \/ \E dispose \in BOOLEAN : LoopStop(dispose)
  \/ \E id \in 1..MaxLoopEvents, dies \in BOOLEAN : LoopFrame(id, dies)
  \/ LoopTogglePause
  \/ \E paused \in BOOLEAN : LoopSetPaused(paused)
  \/ LoopRestart

SpecLoop == LoopInit /\ [][LoopNext]_vars

\* C17: the elapsed time passed to an update step is at most 0.1 s whatever
\* the wall-clock gap since the last frame, and a frame in which the game
\* is paused or over runs no update step.
C17_CappedDeltaNoPausedUpdate ==
  llog.last.updated =>
    /\ llog.last.delta <= TickDelta
    /\ ~llog.last.paused /\ ~llog.last.over

\* a frame that comes 5 s after the one before it runs update with 0.1 s
C17_Witness ==
  /\ llog.last.op = "frame" /\ llog.last.updated
  /\ llog.last.gap >= 5000
  /\ llog.last.delta = TickDelta

\* C18: once stop() or dispose() has returned and until start() is called
\* again, a frame callback does no work: it runs no update step, does not
\* render and requests no further frame.
C18_NoWorkAfterStop ==
  (llog.stopped /\ llog.last.op = "frame") =>
    /\ ~llog.last.worked /\ ~llog.last.updated
    /\ ~loop.isRunning

\* a frame request that stop() did not cancel runs after it and returns at
\* once
C18_Witness ==
  /\ llog.stopped /\ llog.last.op = "frame"
  /\ ~loop.isRunning

\* C30: there is at most one chain of game-loop callbacks: after any
\* interleaving of start, stop, restart and frame callbacks at most one
\* frame request is pending (and so at most one update runs per display
\* frame).
C30_OneFrameRequestPending ==
  Cardinality(loop.pending) <= 1

\* C31: a restart made while the loop is running leaves the session
\* running: isRunning stays true, and the frame callbacks that follow,
\* with no stop() and no further start(), run update steps of the new
\* session.
C31_RestartKeepsRunning ==
  /\ (llog.last.op = "restart" /\ llog.last.running) => loop.isRunning
  /\ (llog.last.op = "frame" /\ ~llog.stopped
      /\ ~llog.last.paused /\ ~llog.last.over) => llog.last.updated

\* C37: the session is never paused and game-over at once: in every state
\* reached through togglePause, setPaused, ticks and restarts, isPaused and
\* gameOver are not both true.
C37_NeverPausedAndOver ==
  ~(loop.isPaused /\ loop.gameOver)

(***************************************************************************)
(* spawnWave and selectEnemyType (TankGameEngine.ts 132-175)               *)
(***************************************************************************)

\* the last wave spawned in a run
MaxSpawnWave == 3
\* EnemyTankType
EnemyTypes == {"standard", "fast", "heavy", "boss"}
\* outcomes of Math.random(), in hundredths
RandomDraws == {0, 14, 15, 19, 20, 24, 25, 34, 35, 99}

\* selectEnemyType that does not look at the index
SelectEnemyType_AnySlot(wave, index, r1, r2, r3) ==
  IF wave >= 3 /\ r1 < 15 + (wave - 3) * 10 THEN "boss"
  ELSE IF wave >= 2 /\ r2 < 20 THEN "heavy"
  ELSE IF r3 < 25 THEN "fast"
  ELSE "standard"

\* selectEnemyType(index, totalEnemies) in the given wave; r1, r2, r3 are
\* the outcomes of the Math.random() calls of lines 159, 164 and 169
SelectEnemyType(wave, index, r1, r2, r3) ==
  IF wave >= 3 /\ index = 0 /\ r1 < 15 + (wave - 3) * 10 THEN "boss"
  ELSE IF wave >= 2 /\ r2 < 20 THEN "heavy"
  ELSE IF r3 < 25 THEN "fast"
  ELSE "standard"

\* the types selectEnemyType can return for slot index of the wave
TypeChoices(wave, index) ==
  {SelectEnemyType(wave, index, r1, r2, r3) : r1, r2, r3 \in RandomDraws}

\* the rosters of types spawnWave can build for slots 0 .. n - 1
RECURSIVE SpawnRosters(_, _)
SpawnRosters(wave, n) ==
  IF n = 0 THEN {<<>>}
  ELSE {Append(r, t) : r \in SpawnRosters(wave, n - 1),
                       t \in TypeChoices(wave, n - 1)}

\* initializeGame: wave 1, about to call spawnWave
SpawnInit ==
  /\ FirstOff /\ WallsOff /\ UnitsOff /\ BulletsOff /\ InputOff /\ CoolOff /\ LoopOff /\ PushOff /\ EngOff /\ SearchOff /\ WallPushOff /\ SepOff /\ PatrolOff /\ FleeOff
  /\ spawned = [wave |-> 1, types |-> <<>>]

\* spawnWave() (132-152) on the empty roster
SpawnWaveTypes ==
  /\ spawned.types = <<>>
  /\ \E r \in SpawnRosters(spawned.wave, enemiesPerWave + (spawned.wave - 1) * 2) :
       spawned' = [spawned EXCEPT !.types = r]
  /\ UNCHANGED <<firstVars, wallVars, unitVars, bulletVars, inputVars, coolVars, loopVars, pushVars, engVars, searchVars, wallPushVars, sepVars, patrolVars, fleeVars>>

\* checkWaveCompletion 461-467: every enemy of the wave is gone, the next
\* wave begins
SpawnWaveCleared ==
  /\ spawned.types # <<>>
  /\ spawned.wave < Min(maxWaves, MaxSpawnWave)
  /\ spawned' = [wave |-> spawned.wave + 1, types |-> <<>>]
  /\ UNCHANGED <<firstVars, wallVars, unitVars, bulletVars, inputVars, coolVars, loopVars, pushVars, engVars, searchVars, wallPushVars, sepVars, patrolVars, fleeVars>>

SpawnNext == SpawnWaveTypes \/ SpawnWaveCleared

SpecSpawn == SpawnInit /\ [][SpawnNext]_vars

\* C19: in every spawned wave there is at most one boss, only in slot 0
\* and only in wave 3 or later; heavy units appear only in wave 2 or later;
\* wave 1 has standard and fast units only.
C19_WaveComposition ==
  LET types == spawned.types
      bosses == {i \in 1..Len(types) : types[i] = "boss"}
      heavies == {i \in 1..Len(types) : types[i] = "heavy"}
  IN  /\ Cardinality(bosses) <= 1
      /\ bosses # {} => bosses = {1} /\ spawned.wave >= 3
      /\ heavies # {} => spawned.wave >= 2
      /\ spawned.wave = 1 =>
           \A i \in 1..Len(types) : types[i] \in {"standard", "fast"}

\* wave 3 spawned with a boss in slot 0 and a heavy, a fast and a standard
\* unit behind it
C19_Witness ==
  /\ spawned.wave = 3 /\ Len(spawned.types) = 7
  /\ spawned.types[1] = "boss"
  /\ \E i, j, k \in 2..7 :
       /\ spawned.types[i] = "heavy"
       /\ spawned.types[j] = "fast"
       /\ spawned.types[k] = "standard"

(***************************************************************************)
(* getCircleRectPushVector (CollisionSystem.ts 171-213)                    *)
(***************************************************************************)

\* calls of a run
MaxPushCalls == 1
\* circle centres, radii and rectangles the function is called with
PushCoords == {41, 42, 45, 48, 50, 55, 60, 62, 65, 68, 69}
PushRadii == {5, 10}
PushRects == { [x |-> 45, y |-> 45, w |-> 20, h |-> 20],
               [x |-> 45, y |-> 45, w |-> 20, h |-> 10],
               [x |-> 48, y |-> 45, w |-> 14, h |-> 24] }

\* Math.sqrt(n) where it is a whole number, -1 where it is not
ExactSqrt(n) ==
  IF \E d \in 0..n : d * d = n THEN CHOOSE d \in 0..n : d * d = n ELSE -1

\* getCircleRectPushVector that tests the edges top, bottom, left, right
GetCircleRectPushVector_TopFirst(circleX, circleY, radius, rectX, rectY, rectW, rectH) ==
  LET closestX == Max(rectX, Min(circleX, rectX + rectW))
      closestY == Max(rectY, Min(circleY, rectY + rectH))
      dx == circleX - closestX
      dy == circleY - closestY
      distance == ExactSqrt(dx * dx + dy * dy)
      toLeft == circleX - rectX
      toRight == rectX + rectW - circleX
      toTop == circleY - rectY
      toBottom == rectY + rectH - circleY
      minDist == Min(Min(toLeft, toRight), Min(toTop, toBottom))
      overlap == radius - distance
  IN  IF distance >= radius THEN NoPos
      ELSE IF distance = 0
      THEN IF minDist = toTop THEN Vec(0, -radius - toTop)
           ELSE IF minDist = toBottom THEN Vec(0, radius + toBottom)
           ELSE IF minDist = toLeft THEN Vec(-radius - toLeft, 0)
           ELSE Vec(radius + toRight, 0)
      ELSE Vec((dx * overlap) \div distance, (dy * overlap) \div distance)

\* getCircleRectPushVector(circleX, circleY, radius, rectX, rectY, rectW,
\* rectH); NoPos stands for null
GetCircleRectPushVector(circleX, circleY, radius, rectX, rectY, rectW, rectH) ==
  LET closestX == Max(rectX, Min(circleX, rectX + rectW))
      closestY == Max(rectY, Min(circleY, rectY + rectH))
      dx == circleX - closestX
      dy == circleY - closestY
      distance == ExactSqrt(dx * dx + dy * dy)
      toLeft == circleX - rectX
      toRight == rectX + rectW - circleX
      toTop == circleY - rectY
      toBottom == rectY + rectH - circleY
      minDist == Min(Min(toLeft, toRight), Min(toTop, toBottom))
      overlap == radius - distance
  IN  IF distance >= radius THEN NoPos
      ELSE IF distance = 0
      THEN IF minDist = toLeft THEN Vec(-radius - toLeft, 0)
           ELSE IF minDist = toRight THEN Vec(radius + toRight, 0)
           ELSE IF minDist = toTop THEN Vec(0, -radius - toTop)
           ELSE Vec(0, radius + toBottom)
      ELSE Vec((dx * overlap) \div distance, (dy * overlap) \div distance)

\* the distance and the push are whole numbers for these arguments
ExactPushArgs(c, radius, rect) ==
  LET dx == c.x - Max(rect.x, Min(c.x, rect.x + rect.w))
      dy == c.y - Max(rect.y, Min(c.y, rect.y + rect.h))
      distance == ExactSqrt(dx * dx + dy * dy)
  IN  /\ distance >= 0
      /\ distance > 0 =>
           /\ (dx * (radius - distance)) % distance = 0
           /\ (dy * (radius - distance)) % distance = 0

PushInit ==
  /\ FirstOff /\ WallsOff /\ UnitsOff /\ BulletsOff /\ InputOff /\ CoolOff /\ EngOff /\ SearchOff /\ WallPushOff /\ SepOff /\ PatrolOff /\ FleeOff
  /\ LoopOff /\ SpawnOff
  /\ \E cx, cy \in PushCoords, radius \in PushRadii, rect \in PushRects :
       /\ ExactPushArgs(Vec(cx, cy), radius, rect)
       /\ pv = [c |-> Vec(cx, cy), radius |-> radius, rect |-> rect,
                calls |-> 0, out |-> NoPos, tests |-> 0, hit |-> FALSE]

\* a call of getCircleRectPushVector
PushCall ==
  /\ pv.calls < MaxPushCalls
  /\ pv' = [pv EXCEPT
              !.calls = @ + 1,
              !.out = GetCircleRectPushVector(pv.c.x, pv.c.y, pv.radius,
                         pv.rect.x, pv.rect.y, pv.rect.w, pv.rect.h)]
  /\ UNCHANGED <<firstVars, wallVars, unitVars, bulletVars, inputVars, coolVars, loopVars, spawnVars, engVars, searchVars, wallPushVars, sepVars, patrolVars, fleeVars>>

\* a call of Wall.intersectsCircle on the wall with that rectangle
PushTest ==
  /\ pv.tests < MaxPushCalls
  /\ pv' = [pv EXCEPT
              !.tests = @ + 1,
              !.hit = IntersectsCircle([x |-> pv.rect.x, y |-> pv.rect.y,
                                        width |-> pv.rect.w, height |-> pv.rect.h],
                                       pv.c.x, pv.c.y, pv.radius)]
  /\ UNCHANGED <<firstVars, wallVars, unitVars, bulletVars, inputVars, coolVars, loopVars, spawnVars, engVars, searchVars, wallPushVars, sepVars, patrolVars, fleeVars>>

PushNext == PushCall \/ PushTest

SpecPush == PushInit /\ [][PushNext]_vars

\* the centre of the circle lies in the rectangle, its edges included
CentreInRect ==
  /\ pv.rect.x <= pv.c.x /\ pv.c.x <= pv.rect.x + pv.rect.w
  /\ pv.rect.y <= pv.c.y /\ pv.c.y <= pv.rect.y + pv.rect.h

\* the edges in the order of the tie-break, and the distance of the centre
\* from each
EdgeOrder == <<"left", "right", "top", "bottom">>
EdgeDistance(e) ==
  CASE e = "left" -> pv.c.x - pv.rect.x
    [] e = "right" -> pv.rect.x + pv.rect.w - pv.c.x
    [] e = "top" -> pv.c.y - pv.rect.y
    [] e = "bottom" -> pv.rect.y + pv.rect.h - pv.c.y

\* the edge a push vector along one axis points to
PushedToward(v) ==
  CASE v.x < 0 /\ v.y = 0 -> "left"
    [] v.x > 0 /\ v.y = 0 -> "right"
    [] v.x = 0 /\ v.y < 0 -> "top"
    [] v.x = 0 /\ v.y > 0 -> "bottom"
    [] OTHER -> "none"

\* C20: for a circle whose centre lies inside the rectangle,
\* getCircleRectPushVector pushes toward the nearest of the four edges, to
\* a centre one radius beyond it, and among equally near edges it picks
\* the first of left, right, top, bottom; the circle (50, 50) of radius 10
\* in the rectangle [45, 65] x [45, 65] is pushed in the negative x
\* direction.
C20_PushTowardNearestEdge ==
  (pv.calls > 0 /\ CentreInRect) =>
    /\ pv.out # NoPos
    /\ \E k \in 1..4 :
         /\ PushedToward(pv.out) = EdgeOrder[k]
         /\ \A j \in 1..4 : EdgeDistance(EdgeOrder[k]) <= EdgeDistance(EdgeOrder[j])
         /\ \A j \in 1..(k - 1) : EdgeDistance(EdgeOrder[j]) > EdgeDistance(EdgeOrder[k])
         /\ Abs(pv.out.x) + Abs(pv.out.y) = pv.radius + EdgeDistance(EdgeOrder[k])
    /\ (pv.c = Vec(50, 50) /\ pv.radius = 10
        /\ pv.rect = [x |-> 45, y |-> 45, w |-> 20, h |-> 20]) =>
         pv.out.x < 0 /\ pv.out.y = 0

\* the square of the distance from the centre of the circle to the closest
\* point of the rectangle
PushDistSq ==
  LET dx == pv.c.x - Max(pv.rect.x, Min(pv.c.x, pv.rect.x + pv.rect.w))
      dy == pv.c.y - Max(pv.rect.y, Min(pv.c.y, pv.rect.y + pv.rect.h))
  IN  dx * dx + dy * dy

\* C25: the circle-rectangle tests used for walls report an intersection
\* exactly when the distance from the closest point of the rectangle to the
\* centre is strictly less than the radius; a circle that touches the
\* rectangle (distance = radius) does not intersect.
C25_TouchingDoesNotIntersect ==
  /\ pv.tests > 0 => (pv.hit <=> PushDistSq < pv.radius * pv.radius)
  /\ pv.calls > 0 => (pv.out # NoPos <=> PushDistSq < pv.radius * pv.radius)

\* the example of the claim: the left and the top edge are both 5 away and
\* the push is (-15, 0)
C20_Witness ==
  /\ pv.calls > 0
  /\ pv.c = Vec(50, 50) /\ pv.radius = 10
  /\ pv.rect = [x |-> 45, y |-> 45, w |-> 20, h |-> 20]
  /\ EdgeDistance("left") = EdgeDistance("top")
  /\ pv.out = Vec(-15, 0)

(***************************************************************************)
(* init (TankGameEngine.ts 65-86) with and without a 2D context, and the   *)
(* lifecycle calls of the host after it                                    *)
(***************************************************************************)

\* lifecycle calls of a run
MaxEngCalls == 8

\* the engine as its field initialisers leave it (17-62)
NewEngine ==
  [phase |-> "new", canvas |-> FALSE, ctx |-> FALSE, inputSystem |-> FALSE,
   listeners |-> FALSE, clickListener |-> FALSE, world |-> FALSE,
   isRunning |-> FALSE, pending |-> {}, nextId |-> 1,
   updates |-> 0, threw |-> FALSE, calls |-> 0]

\* init that builds the input system before it asks for the context
EngineInit_ThrowLate(e, hasContext) ==
  IF ~hasContext
  THEN [e EXCEPT !.phase = "failed", !.canvas = TRUE, !.inputSystem = TRUE,
                 !.listeners = TRUE, !.threw = TRUE]
  ELSE [e EXCEPT !.phase = "ready", !.canvas = TRUE, !.ctx = TRUE,
                 !.inputSystem = TRUE, !.listeners = TRUE, !.world = TRUE,
                 !.isRunning = FALSE, !.clickListener = TRUE, !.threw = FALSE]

\* init(canvas) (65-86); hasContext: canvas.getContext('2d') is not null
EngineInit(e, hasContext) ==
  IF ~hasContext
  THEN [e EXCEPT !.phase = "failed", !.canvas = TRUE, !.threw = TRUE]
  ELSE [e EXCEPT !.phase = "ready", !.canvas = TRUE, !.ctx = TRUE,
                 !.inputSystem = TRUE, !.listeners = TRUE, !.world = TRUE,
                 !.isRunning = FALSE, !.clickListener = TRUE, !.threw = FALSE]

\* gameLoop() (196-210) of a running, unpaused game: update reads
\* inputSystem and the world and throws a TypeError before anything is
\* requested if init never made them
EngineGameLoop(e) ==
  IF ~e.isRunning THEN [e EXCEPT !.threw = FALSE]
  ELSE IF ~e.inputSystem \/ ~e.world THEN [e EXCEPT !.threw = TRUE]
  ELSE [e EXCEPT !.updates = @ + 1, !.threw = FALSE,
                 !.pending = @ \cup {e.nextId}, !.nextId = @ + 1]

\* start() (178-184)
EngineStart(e) ==
  IF e.isRunning THEN [e EXCEPT !.threw = FALSE]
  ELSE EngineGameLoop([e EXCEPT !.isRunning = TRUE])

\* stop() (187-193): the request in animationId is the last one made
EngineStop(e) ==
  [e EXCEPT !.isRunning = FALSE, !.pending = {}, !.threw = FALSE]

\* dispose() (588-591): stop(), then inputSystem.dispose()
EngineDispose(e) ==
  IF ~e.inputSystem THEN [EngineStop(e) EXCEPT !.threw = TRUE]
  ELSE [EngineStop(e) EXCEPT !.listeners = FALSE]

EngInit ==
  /\ FirstOff /\ WallsOff /\ UnitsOff /\ BulletsOff /\ InputOff /\ CoolOff /\ LoopOff /\ SpawnOff /\ PushOff /\ SearchOff /\ WallPushOff /\ SepOff /\ PatrolOff /\ FleeOff
  /\ eng = NewEngine

Called(e) == [e EXCEPT !.calls = @ + 1]

\* the host calls init(canvas)
EngCallInit(hasContext) ==
  /\ eng.phase = "new"
  /\ eng' = Called(EngineInit(eng, hasContext))
  /\ UNCHANGED <<firstVars, wallVars, unitVars, bulletVars, inputVars, coolVars, loopVars, spawnVars, pushVars, searchVars, wallPushVars, sepVars, patrolVars, fleeVars>>

\* the host calls start()
EngCallStart ==
  /\ eng.phase # "new" /\ eng.calls < MaxEngCalls
  /\ eng' = Called(EngineStart(eng))
  /\ UNCHANGED <<firstVars, wallVars, unitVars, bulletVars, inputVars, coolVars, loopVars, spawnVars, pushVars, searchVars, wallPushVars, sepVars, patrolVars, fleeVars>>

\* the host calls stop() or dispose()
EngCallStop(dispose) ==
  /\ eng.phase # "new" /\ eng.calls < MaxEngCalls
  /\ eng' = Called(IF dispose THEN EngineDispose(eng) ELSE EngineStop(eng))
  /\ UNCHANGED <<firstVars, wallVars, unitVars, bulletVars, inputVars, coolVars, loopVars, spawnVars, pushVars, searchVars, wallPushVars, sepVars, patrolVars, fleeVars>>

\* the browser runs a pending frame request
EngFrame(id) ==
  /\ eng.calls < MaxEngCalls
  /\ id \in eng.pending
  /\ eng' = Called(EngineGameLoop([eng EXCEPT !.pending = @ \ {id}]))
  /\ UNCHANGED <<firstVars, wallVars, unitVars, bulletVars, inputVars, coolVars, loopVars, spawnVars, pushVars, searchVars, wallPushVars, sepVars, patrolVars, fleeVars>>

EngNext ==
  \/ \E hasContext \in BOOLEAN : EngCallInit(hasContext)
  \/ EngCallStart
  \/ \E dispose \in BOOLEAN : EngCallStop(dispose)
  \/ \E id \in 1..MaxEngCalls : EngFrame(id)

SpecInit == EngInit /\ [][EngNext]_vars

\* C21: when no 2D context can be had, init throws and nothing is built:
\* no input listener and no click listener is registered, no world exists,
\* and whatever the host calls afterwards no frame is ever requested and
\* no update step completes; when init returns the loop flag is off.
C21_InitFailureBuildsNothing ==
  eng.phase = "failed" =>
    /\ ~eng.inputSystem /\ ~eng.listeners /\ ~eng.clickListener
    /\ ~eng.world /\ ~eng.ctx
    /\ eng.pending = {} /\ eng.updates = 0
    /\ eng.calls = 1 => (eng.threw /\ ~eng.isRunning)

\* init has failed and the host has called start() none the less: the call
\* threw and left nothing scheduled
C21_Witness ==
  /\ eng.phase = "failed" /\ eng.calls >= 2
  /\ eng.isRunning /\ eng.threw
  /\ eng.pending = {}

\* C22: a unit in attack whose health is below 30% of its maximum drops to
\* retreat in update; a unit in retreat whose effective target is within
\* lose-range (450) is left in retreat by updateAIState, it does not go
\* back to attack or chase, and update keeps it moving away; once the
\* target is farther than 450 update returns it to patrol with target and
\* alert cleared.
C22_RetreatUntilOutOfRange ==
  LET pre == ailog.pre
      target == GetEffectiveTarget(pre)
      lowHealth == pre.health * 10 < pre.maxHealth * 3
      inRange == DistSq(pre.position, target) <= loseTargetRange * loseTargetRange
  IN  /\ (ailog.op = "update" /\ pre.aiState = "attack" /\ target # NoPos
          /\ lowHealth) => ai.aiState = "retreat"
      /\ (ailog.op = "updateAIState" /\ pre.aiState = "retreat"
          /\ target # NoPos /\ inRange) => ai.aiState = "retreat"
      /\ (ailog.op = "update" /\ pre.aiState = "retreat" /\ target # NoPos) =>
           IF inRange
           THEN ai.aiState = "retreat" /\ ai.velocity = "away"
           ELSE /\ ai.aiState = "patrol"
                /\ ai.targetPosition = NoPos /\ ai.alertedPosition = NoPos

(***************************************************************************)
(* The search at the alerted position: updateAIState 395-417 under the     *)
(* per-enemy body of updateEnemies (TankGameEngine.ts 282-297)             *)
(***************************************************************************)

\* ticks of a search
MaxSearchTicks == 126
\* elapsed times of a tick in ms: a 120 Hz frame, a 60 Hz frame, the cap
SearchDeltas == {8, 16, TickDelta}

\* a unit alerted to a position 20 away that it has just reached, with no
\* line of sight to the player
SearchInit ==
  /\ FirstOff /\ WallsOff /\ UnitsOff /\ BulletsOff /\ InputOff /\ CoolOff /\ LoopOff /\ SpawnOff /\ PushOff /\ EngOff /\ WallPushOff /\ SepOff /\ PatrolOff /\ FleeOff
  /\ srch = [e |-> AlertToPosition(NewEnemyTank(Vec(0, 0), 80), Vec(20, 0)),
             simTime |-> 0, ticks |-> 0]

\* updateEnemies 290-297 for the unit, out of sight of the player and
\* staying where it is: setTarget(null), updateAIState(), update(deltaTime)
SearchTick(dt) ==
  /\ srch.ticks < MaxSearchTicks
  /\ srch' = [e |-> EnemyUpdate(UpdateAIState(SetTarget(srch.e, NoPos)), dt),
              simTime |-> srch.simTime + dt,
              ticks |-> srch.ticks + 1]
  /\ UNCHANGED <<firstVars, wallVars, unitVars, bulletVars, inputVars, coolVars, loopVars, spawnVars, pushVars, engVars, wallPushVars, sepVars, patrolVars, fleeVars>>

SpecSearch == SearchInit /\ [][\E dt \in SearchDeltas : SearchTick(dt)]_vars

\* C23: an alerted unit with no direct target that stays within 30 units of
\* the alerted position stays in patrol with its alert active while less
\* than 2 s of simulated time have accumulated there, and once 2 s have
\* accumulated its alert is cleared and it is in patrol, whatever the
\* elapsed time of the ticks.
C23_SearchLastsTwoSeconds ==
  /\ srch.ticks > 0 => srch.e.aiState = "patrol"
  /\ srch.simTime < searchLimit =>
       srch.e.alertedPosition # NoPos /\ srch.e.alertTimer > 0
  /\ srch.simTime >= searchLimit =>
       srch.e.alertedPosition = NoPos /\ srch.e.alertTimer = 0

(***************************************************************************)
(* The body of the wall loop of resolveTankWallCollision                   *)
(* (CollisionSystem.ts 26-50) for a unit near its spawn point              *)
(***************************************************************************)

\* passes through the body
MaxWallPushCalls == 1
\* (Math.random() - 0.5) * 60 of spawnWave, in twelfths of an arena unit
FineOffsets == {-360, -48, 0, 120, 200, 260, 348}

\* a unit as spawnWave places it and a wall of the map
WallPushInit ==
  /\ FirstOff /\ WallsOff /\ UnitsOff /\ BulletsOff /\ InputOff /\ CoolOff /\ LoopOff /\ SpawnOff /\ PushOff /\ EngOff /\ SearchOff /\ SepOff /\ PatrolOff /\ FleeOff
  /\ \E sp \in EnemySpawnPoints, ox \in FineOffsets, oy \in FineOffsets,
        m \in SizeMults, i \in 1..Len(Walls) :
       wp = [t |-> NewUnit(Vec(sp.x + ox, sp.y + oy), G(TankRadius(m))),
             wall |-> i, calls |-> 0,
             pre |-> NewUnit(Vec(sp.x + ox, sp.y + oy), G(TankRadius(m)))]

\* resolveTankWallCollision 27-50: the body of the loop for the wall
WallPushCall ==
  /\ wp.calls < MaxWallPushCalls
  /\ wp' = [wp EXCEPT !.t = ResolveOneWall(wp.t, Walls[wp.wall]),
                      !.pre = wp.t,
                      !.calls = @ + 1]
  /\ UNCHANGED <<firstVars, wallVars, unitVars, bulletVars, inputVars, coolVars, loopVars, spawnVars, pushVars, engVars, searchVars, sepVars, patrolVars, fleeVars>>

SpecWallPush == WallPushInit /\ [][WallPushCall]_vars

\* the overlaps of the unit before the pass with the wall, per axis:
\* half-extent + radius - |centre offset|
WallOverlap ==
  LET w == Walls[wp.wall]
      c == GetCenter(w)
  IN  [x |-> w.width \div 2 + wp.pre.radius - Abs(wp.pre.position.x - c.x),
       y |-> w.height \div 2 + wp.pre.radius - Abs(wp.pre.position.y - c.y)]

\* the unit intersected the wall before the pass
WallPushed ==
  /\ wp.calls > 0
  /\ IntersectsCircle(Walls[wp.wall], wp.pre.position.x, wp.pre.position.y,
                      wp.pre.radius)

\* C26: for a living unit that intersects a wall, resolveTankWallCollision
\* moves the unit only along the axis with the smaller overlap, to
\* half-extent + radius from the wall centre on the side the unit is on;
\* with equal overlaps it moves it along the vertical axis; the other
\* coordinate is unchanged.
C26_PushedAlongSmallerOverlap ==
  WallPushed =>
    LET w == Walls[wp.wall]
        c == GetCenter(w)
        pre == wp.pre.position
        post == wp.t.position
    IN  IF WallOverlap.x < WallOverlap.y
        THEN /\ post.y = pre.y
             /\ Abs(post.x - c.x) = w.width \div 2 + wp.pre.radius
             /\ (post.x - c.x) * (pre.x - c.x) >= 0
        ELSE /\ post.x = pre.x
             /\ Abs(post.y - c.y) = w.height \div 2 + wp.pre.radius
             /\ (post.y - c.y) * (pre.y - c.y) >= 0

(***************************************************************************)
(* resolveTankTankCollision (CollisionSystem.ts 55-71) for two units       *)
(* placed by spawnWave, which does not keep them apart                     *)
(***************************************************************************)

\* calls of a run
MaxSepCalls == 1
\* position of the second unit relative to the first, in twelfths of an
\* arena unit: the same place, along an axis, along a 3-4-5 diagonal, apart
SepOffsets == {Vec(0, 0), Vec(120, 0), Vec(0, -240), Vec(180, 240),
               Vec(-240, 180), Vec(720, 0)}

SepInit ==
  /\ FirstOff /\ WallsOff /\ UnitsOff /\ BulletsOff /\ InputOff /\ CoolOff /\ LoopOff /\ SpawnOff /\ PushOff /\ EngOff /\ SearchOff /\ WallPushOff /\ PatrolOff /\ FleeOff
  /\ \E sp \in EnemySpawnPoints, d \in SepOffsets, m1, m2 \in SizeMults :
       LET tank1 == NewUnit(sp, G(TankRadius(m1)))
           tank2 == NewUnit(Vec(sp.x + d.x, sp.y + d.y), G(TankRadius(m2)))
       IN  /\ ExactPush(tank1, tank2)
           /\ sep = [tank1 |-> tank1, tank2 |-> tank2,
                     pre1 |-> tank1, pre2 |-> tank2, calls |-> 0]

\* updateEnemies 310-315: resolveTankTankCollision(tank1, tank2)
SepCall ==
  /\ sep.calls < MaxSepCalls
  /\ LET r == ResolveTankTankCollision(sep.tank1, sep.tank2)
     IN  sep' = [tank1 |-> r[1], tank2 |-> r[2],
                 pre1 |-> sep.tank1, pre2 |-> sep.tank2,
                 calls |-> sep.calls + 1]
  /\ UNCHANGED <<firstVars, wallVars, unitVars, bulletVars, inputVars, coolVars, loopVars, spawnVars, pushVars, engVars, searchVars, wallPushVars, patrolVars, fleeVars>>

SpecSeparate == SepInit /\ [][SepCall]_vars

\* the circles of the two units overlapped before the call
SepOverlapped ==
  /\ sep.calls > 0
  /\ sep.pre1.isAlive /\ sep.pre2.isAlive
  /\ DistSq(sep.pre1.position, sep.pre2.position)
       < (sep.pre1.radius + sep.pre2.radius) * (sep.pre1.radius + sep.pre2.radius)

\* the call moved the units apart symmetrically along the line of their
\* centres, each by half the overlap, and they no longer overlap
SepSymmetric ==
  LET p1 == sep.pre1.position
      p2 == sep.pre2.position
      q1 == sep.tank1.position
      q2 == sep.tank2.position
      sum == sep.pre1.radius + sep.pre2.radius
      overlap == sum - ExactSqrt(DistSq(p1, p2))
  IN  /\ q1.x + q2.x = p1.x + p2.x /\ q1.y + q2.y = p1.y + p2.y
      /\ 4 * DistSq(q1, p1) = overlap * overlap
      /\ 4 * DistSq(q2, p2) = overlap * overlap
      /\ (q1.x - p1.x) * (p1.y - p2.y) = (q1.y - p1.y) * (p1.x - p2.x)
      /\ (q1.x - p1.x) * (p1.x - p2.x) + (q1.y - p1.y) * (p1.y - p2.y) >= 0
      /\ DistSq(q1, q2) >= sum * sum

\* C27 as stated: whenever the circles of two living units overlap
\* (distance < sum of the radii), resolveTankTankCollision separates them
\* symmetrically, each by half the overlap, the midpoint unchanged, and
\* afterwards they do not overlap.
C27_OverlapSeparated ==
  SepOverlapped => SepSymmetric

\* C27, amended: whenever the circles of two living units overlap and their
\* centres differ (0 < distance < sum of the radii),
\* resolveTankTankCollision separates them symmetrically, each by half the
\* overlap, the midpoint unchanged, and afterwards they do not overlap; two
\* units with the same centre are left where they are.
C27_DistinctCentresSeparated ==
  SepOverlapped =>
    IF sep.pre1.position # sep.pre2.position
    THEN SepSymmetric
    ELSE sep.tank1 = sep.pre1 /\ sep.tank2 = sep.pre2

\* a heavy and a boss unit 25 apart along a diagonal were pushed 12.5 each
C27_Witness ==
  /\ SepOverlapped
  /\ sep.pre2.position.x - sep.pre1.position.x = 180
  /\ sep.pre2.position.y - sep.pre1.position.y = 240
  /\ sep.tank1.position # sep.pre1.position

(***************************************************************************)
(* Patrol: generatePatrolPoints (Wall.ts 270-292), updatePatrol (431-458), *)
(* moveToward (522-526) and the move of updateEnemies                      *)
(* (TankGameEngine.ts 299-304) for a standard unit of wave 1 that sees no  *)
(* target and is clear of walls and tanks.  Lengths are in twentieths of   *)
(* an arena unit, times in ms.                                             *)
(***************************************************************************)

\* ticks of a run
MaxPatrolTicks == 20
\* twentieths of an arena unit
PatrolScale == 20
P(n) == n * PatrolScale
\* (80 + difficulty * 15) * speedMult for a standard unit of wave 1
StandardSpeed == 95
\* patrolWaitDuration, in ms
patrolWaitDuration == 1500
\* distance below which a waypoint is reached
patrolReach == 20
\* elapsed times of a tick in ms
PatrolDeltas == {50, TickDelta}

\* Math.sqrt, rounded down
ISqrt(n) == CHOOSE d \in 0..P(200) : d * d <= n /\ (d + 1) * (d + 1) > n

\* EnemyTank.generatePatrolPoints(bounds) for a unit at center
GeneratePatrolPoints(center) ==
  LET minX == P(boundaryThickness) + P(50)
      maxX == P(virtualWidth) - P(boundaryThickness) - P(50)
      minY == P(boundaryThickness) + P(50)
      maxY == P(virtualHeight) - P(boundaryThickness) - P(50)
      patrolRadius == P(100)
  IN  << Vec(Max(minX, Min(maxX, center.x + patrolRadius)), center.y),
         Vec(center.x, Max(minY, Min(maxY, center.y + patrolRadius))),
         Vec(Max(minX, Min(maxX, center.x - patrolRadius)), center.y),
         Vec(center.x, Max(minY, Min(maxY, center.y - patrolRadius))) >>

\* EnemyTank.moveToward(target, speed): the velocity, per second
MoveToward(e, target, speed) ==
  LET dx == target.x - e.position.x
      dy == target.y - e.position.y
      length == ISqrt(dx * dx + dy * dy)
  IN  [e EXCEPT !.velocity = Vec((dx * speed) \div length, (dy * speed) \div length)]

\* updatePatrol that does not wrap the index
UpdatePatrolStep_NoWrap(e, dt) ==
  IF Len(e.patrolPoints) = 0 THEN [e EXCEPT !.velocity = Vec(0, 0)]
  ELSE LET target == e.patrolPoints[e.currentPatrolIndex + 1]
       IN  IF DistSq(e.position, target) < P(patrolReach) * P(patrolReach)
           THEN IF e.patrolWaitTime + dt >= patrolWaitDuration
                THEN [e EXCEPT !.velocity = Vec(0, 0),
                               !.patrolWaitTime = 0,
                               !.currentPatrolIndex = @ + 1]
                ELSE [e EXCEPT !.velocity = Vec(0, 0),
                               !.patrolWaitTime = @ + dt]
           ELSE MoveToward(e, target, (P(StandardSpeed) * 6) \div 10)

\* EnemyTank.updatePatrol(deltaTime); currentPatrolIndex counts from 0
UpdatePatrolStep(e, dt) ==
  IF Len(e.patrolPoints) = 0 THEN [e EXCEPT !.velocity = Vec(0, 0)]
  ELSE LET target == e.patrolPoints[e.currentPatrolIndex + 1]
       IN  IF DistSq(e.position, target) < P(patrolReach) * P(patrolReach)
           THEN IF e.patrolWaitTime + dt >= patrolWaitDuration
                THEN [e EXCEPT !.velocity = Vec(0, 0),
                               !.patrolWaitTime = 0,
                               !.currentPatrolIndex =
                                  (@ + 1) % Len(e.patrolPoints)]
                ELSE [e EXCEPT !.velocity = Vec(0, 0),
                               !.patrolWaitTime = @ + dt]
           ELSE MoveToward(e, target, (P(StandardSpeed) * 6) \div 10)

\* where a unit on patrol comes near its waypoint from: straight from the
\* spawn position, or from elsewhere after a chase
PatrolApproach == {Vec(P(30), 0), Vec(0, -P(24)), Vec(-P(21), -P(28))}

\* spawnWave 137-146: a unit with its waypoints laid around the spawn
\* position, now heading for waypoint i, or just spawned
PatrolInit ==
  /\ FirstOff /\ WallsOff /\ UnitsOff /\ BulletsOff /\ InputOff /\ CoolOff /\ LoopOff /\ SpawnOff /\ PushOff /\ EngOff /\ SearchOff /\ WallPushOff /\ SepOff /\ FleeOff
  /\ \E sp \in EnemySpawnPoints, i \in 0..3, a \in PatrolApproach \cup {NoPos} :
       LET c == Vec((sp.x * PatrolScale) \div GeoScale,
                    (sp.y * PatrolScale) \div GeoScale)
           points == GeneratePatrolPoints(c)
           e == [position |-> IF a = NoPos THEN c
                              ELSE Vec(points[i + 1].x + a.x, points[i + 1].y + a.y),
                 velocity |-> Vec(0, 0),
                 patrolPoints |-> points,
                 currentPatrolIndex |-> IF a = NoPos THEN 0 ELSE i,
                 patrolWaitTime |-> 0]
       IN  pat = [e |-> e, pre |-> e, dt |-> 0, waited |-> 0, ticks |-> 0]

\* updateEnemies 290-304 for the unit: update(deltaTime) runs updatePatrol,
\* then the unit moves by velocity * deltaTime; waited is the time spent
\* within reach of the waypoint since the index last changed
PatrolTick(dt) ==
  /\ pat.ticks < MaxPatrolTicks
  /\ LET e1 == UpdatePatrolStep(pat.e, dt)
         near == DistSq(pat.e.position,
                        pat.e.patrolPoints[pat.e.currentPatrolIndex + 1])
                   < P(patrolReach) * P(patrolReach)
     IN  pat' = [e |-> [e1 EXCEPT !.position =
                          Vec(@.x + (e1.velocity.x * dt) \div 1000,
                              @.y + (e1.velocity.y * dt) \div 1000)],
                 pre |-> pat.e, dt |-> dt,
                 waited |-> IF ~near THEN pat.waited
                            ELSE IF pat.waited + dt >= patrolWaitDuration THEN 0
                            ELSE pat.waited + dt,
                 ticks |-> pat.ticks + 1]
  /\ UNCHANGED <<firstVars, wallVars, unitVars, bulletVars, inputVars, coolVars, loopVars, spawnVars, pushVars, engVars, searchVars, wallPushVars, sepVars, fleeVars>>

SpecPatrol == PatrolInit /\ [][\E dt \in PatrolDeltas : PatrolTick(dt)]_vars

\* the unit was within reach of its waypoint when the tick began
PatrolArrived ==
  /\ pat.ticks > 0
  /\ DistSq(pat.pre.position, pat.pre.patrolPoints[pat.pre.currentPatrolIndex + 1])
       < P(patrolReach) * P(patrolReach)

\* C28: a patrolling unit within 20 of its current waypoint halts with zero
\* velocity; once 1.5 s of wait have accumulated there it advances its
\* waypoint index by one, wrapping to 0 after the last waypoint, and not
\* before; the index is always a valid position in the waypoint list.
C28_PatrolWaitsThenAdvances ==
  LET n == Len(pat.e.patrolPoints)
      before == pat.pre.currentPatrolIndex
      after == pat.e.currentPatrolIndex
  IN  /\ after \in 0..(n - 1)
      /\ pat.ticks > 0 =>
           IF PatrolArrived
           THEN /\ pat.e.velocity = Vec(0, 0)
                /\ pat.e.position = pat.pre.position
                /\ after = IF pat.waited # 0 THEN before
                           ELSE IF before = n - 1 THEN 0 ELSE before + 1
                /\ pat.waited < patrolWaitDuration
           ELSE after = before /\ pat.e.velocity # Vec(0, 0)

\* the unit waited at the last waypoint and its index wrapped to 0
C28_Witness ==
  /\ PatrolArrived
  /\ pat.pre.currentPatrolIndex = 3 /\ pat.e.currentPatrolIndex = 0
  /\ pat.pre.patrolWaitTime + pat.dt >= patrolWaitDuration

(***************************************************************************)
(* Fleeing people: FleeingPerson (Particle.ts 7-104) and                   *)
(* ParticleSystem.update (351-354).  Lengths are in units of                *)
(* 1 / GeoScale, velocities in those units per second, rounded toward 0.   *)
(***************************************************************************)

\* a / b rounded toward 0
Quot(a, b) == IF a >= 0 THEN a \div b ELSE -((-a) \div b)

\* GameMap.obstacleWalls: the walls of createObstacles
ObstacleWalls == SubSeq(Walls, 5, Len(Walls))

\* FleeingPerson.radius
personRadius == 6
\* margin of the out-of-map test
fleeMargin == 50

\* new FleeingPerson(x, y, ...) with velocity (cos, sin)(direction) * speed
NewFleeingPerson(pos, vel) ==
  [position |-> pos, velocity |-> vel, isActive |-> TRUE,
   runFrame |-> 0, frameTimer |-> 0]

\* index of the first obstacle the circle at (x, y) intersects from i on,
\* 0 if none
RECURSIVE FirstObstacle(_, _, _)
FirstObstacle(x, y, i) ==
  IF i > Len(ObstacleWalls) THEN 0
  ELSE IF IntersectsCircle(ObstacleWalls[i], x, y, G(personRadius)) THEN i
  ELSE FirstObstacle(x, y, i + 1)

\* FleeingPerson.update 46-74: the velocity after hitting wall w at newPos
Redirect(v, w, newPos) ==
  LET wallCenter == GetCenter(w)
      dx == newPos.x - wallCenter.x
      dy == newPos.y - wallCenter.y
      halfWidth == w.width \div 2 + G(personRadius)
      halfHeight == w.height \div 2 + G(personRadius)
      overlapX == halfWidth - Abs(dx)
      overlapY == halfHeight - Abs(dy)
  IN  IF overlapX < overlapY
      THEN LET vx == -Quot(v.x, 2)
               speed == ISqrt(vx * vx + v.y * v.y)
           IN  Vec(vx, Sign(v.y) * ((speed * 9) \div 10))
      ELSE LET vy == -Quot(v.y, 2)
               speed == ISqrt(v.x * v.x + vy * vy)
           IN  Vec(Sign(v.x) * ((speed * 9) \div 10), vy)

\* FleeingPerson.update(deltaTime); isActive is also what it returns
FleeingPersonUpdate(p, dt) ==
  IF ~p.isActive THEN p
  ELSE
    LET newPos == Vec(p.position.x + Quot(p.velocity.x * dt, 1000),
                      p.position.y + Quot(p.velocity.y * dt, 1000))
        hit == FirstObstacle(newPos.x, newPos.y, 1)
        vel == IF hit = 0 THEN p.velocity
               ELSE Redirect(p.velocity, ObstacleWalls[hit], newPos)
        pos == IF hit = 0 THEN newPos
               ELSE Vec(p.position.x + Quot(vel.x * dt, 1000),
                        p.position.y + Quot(vel.y * dt, 1000))
        out == \/ pos.x < -G(fleeMargin) \/ pos.x > G(virtualWidth) + G(fleeMargin)
               \/ pos.y < -G(fleeMargin) \/ pos.y > G(virtualHeight) + G(fleeMargin)
    IN  IF out
        THEN [p EXCEPT !.position = pos, !.velocity = vel, !.isActive = FALSE]
        ELSE [p EXCEPT !.position = pos, !.velocity = vel,
                       !.frameTimer = IF @ + dt > 100 THEN 0 ELSE @ + dt,
                       !.runFrame = IF p.frameTimer + dt > 100
                                    THEN (@ + 1) % 4 ELSE @]

\* where an enemy is destroyed, and the velocity the person draws
FleeStarts == {Vec(320, 240), Vec(220, 200), Vec(400, 160), Vec(180, 180)}
FleeVelocities == {Vec(192, -56), Vec(-144, 192), Vec(120, 160), Vec(-160, -120)}
\* elapsed time of the ticks of a run, in ms
FleeDeltas == {16, TickDelta}

\* createFleeingPerson 344-347 at the position of a destroyed enemy
FleeInit ==
  /\ FirstOff /\ WallsOff /\ UnitsOff /\ BulletsOff /\ InputOff /\ CoolOff /\ LoopOff /\ SpawnOff /\ PushOff /\ EngOff /\ SearchOff /\ WallPushOff /\ SepOff /\ PatrolOff
  /\ \E s \in FleeStarts, v \in FleeVelocities, dt \in FleeDeltas :
       flee = [fleeingPeople |-> << NewFleeingPerson(Vec(G(s.x), G(s.y)),
                                                     Vec(G(v.x), G(v.y))) >>,
               dt |-> dt]

\* ParticleSystem.update 353: fleeingPeople.filter(p => p.update(deltaTime))
FleeTick ==
  /\ flee' = [flee EXCEPT !.fleeingPeople =
                SelectSeq([i \in 1..Len(@) |-> FleeingPersonUpdate(@[i], flee.dt)],
                          LAMBDA p : p.isActive)]
  /\ UNCHANGED <<firstVars, wallVars, unitVars, bulletVars, inputVars, coolVars, loopVars, spawnVars, pushVars, engVars, searchVars, wallPushVars, sepVars, patrolVars>>

\* the ticks keep running
SpecFlee == FleeInit /\ [][FleeTick]_vars /\ WF_vars(FleeTick)

\* C29: while the ticks keep running, every fleeing person is eventually
\* deactivated and removed from the list, whatever its spawn position,
\* initial direction and wall bounces.
C29_EveryPersonRemoved == <>(flee.fleeingPeople = << >>)

====
